---- MODULE Spec2Model ----
(***************************************************************************)
(* Model of the screenshot service (package main): the cache repository    *)
(* over the screenshots table, the ETag computation, and the request       *)
(* handler Server.handleScreenshot with its permit pool (s.semaphore).     *)
(*                                                                         *)
(* Strings are sequences of one-character strings; Ord gives the byte of a *)
(* character, so hashing and formatting work on the bytes the code sees.   *)
(***************************************************************************)
EXTENDS Integers, Sequences, FiniteSets, TLC

\* ------------------------------------------------------------------ bounds

\* Capacity of the permit pool, Config.MaxConcurrent (10 in DefaultConfig),
\* modelled small so that the pool fills.
MaxConcurrent == 2

\* Number of requests the HTTP server dispatches in one behaviour.
NumRequests == 3

\* The clock runs from tick 0 to MaxNow; TicksPerHour ticks make one hour,
\* and tick 0 is the start of hour StartHour of the day.
MaxNow == 3

TicksPerHour == 2

StartHour == 10

\* A direct caller of the repository stops when the table's id reaches MaxRowId.
MaxRowId == 4

\* Integer values above Saturation are represented by a number above it.
Saturation == 100000000

\* ------------------------------------------------------------- byte strings

Ord ==
  [c \in {"0","1","2","3","4","5","6","7","8","9"} |->
      CASE c = "0" -> 48 [] c = "1" -> 49 [] c = "2" -> 50 [] c = "3" -> 51
        [] c = "4" -> 52 [] c = "5" -> 53 [] c = "6" -> 54 [] c = "7" -> 55
        [] c = "8" -> 56 [] c = "9" -> 57]
  @@ [c \in {":", "/", ".", "-"} |->
      CASE c = ":" -> 58 [] c = "/" -> 47 [] c = "." -> 46 [] c = "-" -> 45]
  @@ [c \in {"a","b","c","h","o","p","s","t"} |->
      CASE c = "a" -> 97 [] c = "b" -> 98 [] c = "c" -> 99 [] c = "h" -> 104
        [] c = "o" -> 111 [] c = "p" -> 112 [] c = "s" -> 115 [] c = "t" -> 116]

\* strings.HasPrefix(s, p)
HasPrefix(s, p) ==
  /\ Len(s) >= Len(p)
  /\ SubSeq(s, 1, Len(p)) = p

HttpPrefix == <<"h","t","t","p",":","/","/">>

HttpsPrefix == <<"h","t","t","p","s",":","/","/">>

DigitChar == <<"0","1","2","3","4","5","6","7","8","9">>

\* fmt.Sprintf("%d", n) for n >= 0
RECURSIVE Itoa(_)
Itoa(n) ==
  IF n < 10 THEN <<DigitChar[n + 1]>>
  ELSE Itoa(n \div 10) \o <<DigitChar[(n % 10) + 1]>>

\* ---------------------------------------------------------------- FNV-1a 64
\* A 64-bit word is a sequence of 8 bytes, least significant first.

\* offset64 = 14695981039346656037 = 0xcbf29ce484222325
FnvOffset64 == <<37, 35, 34, 132, 228, 156, 242, 203>>

\* prime64 = 1099511628211 = 2^40 + 435
FnvPrimeLow == 435

FnvPrimeShiftBytes == 5

RECURSIVE Xor8(_, _, _)
Xor8(a, b, bits) ==
  IF bits = 0 THEN 0
  ELSE ((a + b) % 2) + 2 * Xor8(a \div 2, b \div 2, bits - 1)

RECURSIVE MulPrime(_, _, _)
\* limbs i..8 of h * prime64 mod 2^64, given the carry into limb i
MulPrime(h, i, carry) ==
  IF i > 8 THEN <<>>
  ELSE LET t == h[i] * FnvPrimeLow
                + (IF i > FnvPrimeShiftBytes THEN h[i - FnvPrimeShiftBytes] ELSE 0)
                + carry
       IN  <<t % 256>> \o MulPrime(h, i + 1, t \div 256)

\* one step of fnv.New64a().Write: hash ^= b; hash *= prime64
FnvStep(h, b) ==
  MulPrime([h EXCEPT ![1] = Xor8(h[1], b, 8)], 1, 0)

RECURSIVE FnvWrite(_, _)
\* h.Write(s): one step per byte, on a word of 8 bytes
FnvWrite(h, s) ==
  IF Len(h) = 8 /\ s # <<>>
  THEN FnvWrite(FnvStep(h, Ord[Head(s)]), Tail(s))
  ELSE h

\* strconv.FormatUint(x, 36): repeated division of the 8-byte word by 36
Base36Char ==
  <<"0","1","2","3","4","5","6","7","8","9","a","b","c","d","e","f","g","h",
    "i","j","k","l","m","n","o","p","q","r","s","t","u","v","w","x","y","z">>

RECURSIVE DivLimbs(_, _, _, _)
\* long division from the most significant limb i down to 1:
\* returns <<quotient limbs (least significant first), remainder>>
DivLimbs(h, i, rem, d) ==
  IF i = 0 THEN <<<<>>, rem>>
  ELSE LET cur  == rem * 256 + h[i]
           rest == DivLimbs(h, i - 1, cur % d, d)
       IN  <<rest[1] \o <<cur \div d>>, rest[2]>>

IsZero64(h) == \A i \in 1..8 : h[i] = 0

RECURSIVE FormatUint36(_)
FormatUint36(h) ==
  LET qr == DivLimbs(h, 8, 0, 36)
  IN  IF IsZero64(qr[1]) THEN <<Base36Char[qr[2] + 1]>>
      ELSE FormatUint36(qr[1]) \o <<Base36Char[qr[2] + 1]>>


\* ------------------------------------------------------------------- clock

\* The hour of the day at tick t (no day change within the modelled ticks).
HourOf(t) == StartHour + (t \div TicksPerHour)

DatePrefix == <<"2","0","2","6","-","1","1","-","0","4","-">>

\* the layout with the minutes kept ("2006-01-02-15-04"), one minute per tick
FormatHourMinute(t) ==
  DatePrefix \o (IF HourOf(t) < 10 THEN <<"0">> ELSE <<>>) \o Itoa(HourOf(t))
    \o <<"-", "0">> \o Itoa(t % TicksPerHour)

\* time.Time.Format("2006-01-02-15"): date and two-digit hour, minutes dropped
FormatHour(t) ==
  DatePrefix \o (IF HourOf(t) < 10 THEN <<"0">> ELSE <<>>) \o Itoa(HourOf(t))

\* -------------------------------------------------------------------- ETag

\* the byte string generateETag feeds to the hash
ETagInput(url, width, height, t) ==
  url \o (Itoa(width) \o <<":">> \o Itoa(height)) \o FormatHour(t)

generateETag(url, width, height, t) ==
  FormatUint36(FnvWrite(FnvOffset64, ETagInput(url, width, height, t)))

\* ---------------------------------------------------------- cache repository
\* A row of the screenshots table.  url is UNIQUE, id is INTEGER PRIMARY KEY
\* AUTOINCREMENT, created_at defaults to CURRENT_TIMESTAMP.

ErrNotFound == "screenshot not found"

ErrGetFailed == "failed to get screenshot"

ErrSaveFailed == "failed to save screenshot"

NoError == "nil"

NoData == "none"

NoRow == [data |-> NoData, contentType |-> "", err |-> ErrNotFound]

\* rows an INSERT of url would conflict with: UNIQUE(url) is the only uniqueness
\* constraint besides the fresh primary key
ConflictingRows(table, url, width, height) ==
  {r \in table : r.url = url}

\* SELECT data, content_type FROM screenshots WHERE url=? AND width=? AND height=?
\* dbOk is FALSE when the database reports an error other than sql.ErrNoRows.
MatchingRows(table, url, width, height) ==
  {r \in table : r.url = url /\ r.width = width /\ r.height = height}

GetIgnoringDimensions(table, url, width, height, dbOk) ==
  LET m == {r \in table : r.url = url}
  IN  IF ~dbOk THEN [data |-> NoData, contentType |-> "", err |-> ErrGetFailed]
      ELSE IF m = {} THEN NoRow
      ELSE LET r == CHOOSE x \in m : TRUE
           IN  [data |-> r.data, contentType |-> r.content_type, err |-> NoError]

Get(table, url, width, height, dbOk) ==
  LET m == MatchingRows(table, url, width, height)
  IN  IF ~dbOk THEN [data |-> NoData, contentType |-> "", err |-> ErrGetFailed]
      ELSE IF m = {} THEN NoRow
      ELSE LET r == CHOOSE x \in m : \A y \in m : x.id <= y.id
           IN  [data |-> r.data, contentType |-> r.content_type, err |-> NoError]

\* INSERT OR REPLACE INTO screenshots (url, data, content_type, width, height):
\* the rows the new row conflicts with are deleted, then the row is inserted
\* under the next AUTOINCREMENT id.
InsertAppending(table, id, url, data, contentType, width, height, t) ==
  table \cup {[id |-> id, url |-> url, data |-> data, content_type |-> contentType,
               width |-> width, height |-> height, created_at |-> t]}

InsertOrReplace(table, id, url, data, contentType, width, height, t) ==
  (table \ ConflictingRows(table, url, width, height))
    \cup {[id |-> id, url |-> url, data |-> data, content_type |-> contentType,
           width |-> width, height |-> height, created_at |-> t]}

\* length(data) of the modelled payloads, in bytes
DataSize == ("img1" :> 1024) @@ ("img2" :> 2048)

ErrListFailed == "failed to list screenshots"

\* json_object('id', id, 'url', url, 'data_size', length(data), ...)
Summary(r) ==
  [id |-> r.id, url |-> r.url, data_size |-> DataSize[r.data],
   content_type |-> r.content_type, width |-> r.width, height |-> r.height,
   created_at |-> r.created_at]

\* the orders in which a scan can hand the rows of the table to an aggregate.
\* ORDER BY in "SELECT json_group_array(...) FROM screenshots ORDER BY id DESC"
\* sorts the rows of the result, and an aggregate without GROUP BY has one: the
\* order in which json_group_array receives the rows is left to the scan
\* (SQLite 3.40 walks the table by ascending id).
ScanOrders(table) ==
  {o \in [1..Cardinality(table) -> table] :
     \A i, j \in 1..Cardinality(table) : i # j => o[i] # o[j]}

\* ScreenshotRepository.List: the JSON array and the error; scan is the order of
\* the scan, dbOk is FALSE when the query or the scan of its row fails
List(table, scan, dbOk) ==
  IF ~dbOk THEN [json |-> <<>>, err |-> ErrListFailed]
  ELSE [json |-> [i \in 1..Len(scan) |-> Summary(scan[i])], err |-> NoError]


\* ------------------------------------------------------- request parameters

MaxWidth == 1920

MaxHeight == 1920

MinUserAgentLen == 20

CacheContentType == "image/webp"

Dimension(w, h) == [Width |-> w, Height |-> h]

PresetNames == {"thumb", "og", "twitter", "square", "mobile", "desktop"}

presets ==
  [n \in PresetNames |->
     CASE n = "thumb"   -> Dimension(800, 420)
       [] n = "og"      -> Dimension(1200, 630)
       [] n = "twitter" -> Dimension(1200, 675)
       [] n = "square"  -> Dimension(1080, 1080)
       [] n = "mobile"  -> Dimension(375, 667)
       [] n = "desktop" -> Dimension(1920, 1080)]

IsDigit(c) == c \in {"0","1","2","3","4","5","6","7","8","9"}

\* the value of a digit string; a value above Saturation is represented by some
\* number above Saturation (callers only compare it with 0 and with the maxima)
RECURSIVE DigitsValue(_, _)
DigitsValue(s, acc) ==
  IF s = <<>> THEN acc
  ELSE DigitsValue(Tail(s),
                   IF acc > Saturation THEN acc ELSE acc * 10 + (Ord[Head(s)] - 48))

\* a digit string without its leading zeros
RECURSIVE StripZeros(_)
StripZeros(s) ==
  IF s # <<>> /\ Head(s) = "0" THEN StripZeros(Tail(s)) ELSE s

\* the decimal digits of 1<<63 - 1 and of 1<<63, the largest magnitudes of int
MaxInt64Digits ==
  <<"9","2","2","3","3","7","2","0","3","6","8","5","4","7","7","5","8","0","7">>

MinInt64Digits ==
  <<"9","2","2","3","3","7","2","0","3","6","8","5","4","7","7","5","8","0","8">>

\* a > b for digit strings of equal length
RECURSIVE DigitsGreater(_, _)
DigitsGreater(a, b) ==
  IF a = <<>> THEN FALSE
  ELSE IF Head(a) # Head(b) THEN Ord[Head(a)] > Ord[Head(b)]
  ELSE DigitsGreater(Tail(a), Tail(b))

\* strconv.ParseInt's range test for a 64-bit int
OutOfRange(digits, limit) ==
  LET d == StripZeros(digits)
  IN  \/ Len(d) > Len(limit)
      \/ Len(d) = Len(limit) /\ DigitsGreater(d, limit)

\* strconv.Atoi: an optional sign, then at least one digit and nothing else;
\* a value that does not fit in int is an error (ErrRange)
Atoi(s) ==
  LET signed == s # <<>> /\ Head(s) \in {"-", "+"}
      neg    == signed /\ Head(s) = "-"
      digits == IF signed THEN Tail(s) ELSE s
  IN  IF digits = <<>> \/ \E i \in 1..Len(digits) : ~IsDigit(digits[i])
      THEN [ok |-> FALSE, n |-> 0]
      ELSE IF OutOfRange(digits, IF neg THEN MinInt64Digits ELSE MaxInt64Digits)
      THEN [ok |-> FALSE, n |-> 0]
      ELSE [ok |-> TRUE,
            n  |-> IF neg THEN 0 - DigitsValue(digits, 0)
                   ELSE DigitsValue(digits, 0)]

parseIntParam(val, defaultVal, maxVal) ==
  IF val = <<>> THEN defaultVal
  ELSE LET a == Atoi(val)
       IN  IF ~a.ok \/ a.n <= 0 THEN defaultVal
           ELSE IF a.n > maxVal THEN maxVal
           ELSE a.n

\* a parseDimensions that starts from "thumb" whatever the preset parameter
parseDimensionsThumbOnly(q) ==
  LET dim == presets["thumb"]
  IN  Dimension(IF q.width # <<>> THEN parseIntParam(q.width, dim.Width, MaxWidth)
                ELSE dim.Width,
                IF q.height # <<>> THEN parseIntParam(q.height, dim.Height, MaxHeight)
                ELSE dim.Height)

\* q is the query: preset (a name, "" when absent), width and height (strings)
parseDimensions(q) ==
  LET dim == IF q.preset # "" /\ q.preset \in PresetNames
             THEN presets[q.preset] ELSE presets["thumb"]
  IN  Dimension(IF q.width # <<>> THEN parseIntParam(q.width, dim.Width, MaxWidth)
                ELSE dim.Width,
                IF q.height # <<>> THEN parseIntParam(q.height, dim.Height, MaxHeight)
                ELSE dim.Height)

\* a User-Agent header: its length and whether botPattern matches it
isBot(ua) == ua.len < MinUserAgentLen \/ ua.matchesBotPattern

\* a handler that leaves only https:// urls as they are
NormalizeURLUnlessHttps(url) ==
  IF ~HasPrefix(url, HttpsPrefix) THEN HttpsPrefix \o url ELSE url

\* targetURL of handleScreenshot for a non-empty url parameter
NormalizeURL(url) ==
  IF ~HasPrefix(url, HttpPrefix) /\ ~HasPrefix(url, HttpsPrefix)
  THEN HttpsPrefix \o url ELSE url

\* ------------------------------------------------------------------ strings
\* Go's strings package on byte strings (sequences of one-character strings).

\* s[i:] for a 0-based i
From(s, i) == SubSeq(s, i + 1, Len(s))

\* s[:i] for a 0-based i
Upto(s, i) == SubSeq(s, 1, i)

\* strings.Index: 0-based position of the first occurrence of sub, -1 if none
Index(s, sub) ==
  LET hits == {i \in 0..(Len(s) - Len(sub)) : SubSeq(s, i + 1, i + Len(sub)) = sub}
  IN  IF hits = {} THEN 0 - 1 ELSE CHOOSE i \in hits : \A j \in hits : i <= j

IndexByte(s, c) == Index(s, <<c>>)

\* strings.LastIndexByte
LastIndexByte(s, c) ==
  LET hits == {i \in 0..(Len(s) - 1) : s[i + 1] = c}
  IN  IF hits = {} THEN 0 - 1 ELSE CHOOSE i \in hits : \A j \in hits : i >= j

Contains(s, sub) == Index(s, sub) # 0 - 1

\* strings.Split on a one-byte separator
RECURSIVE Split(_, _)
Split(s, c) ==
  LET i == IndexByte(s, c)
  IN  IF i = 0 - 1 THEN <<s>> ELSE <<Upto(s, i)>> \o Split(From(s, i + 1), c)

\* strings.Join with a one-byte separator
RECURSIVE Join(_, _)
Join(parts, c) ==
  IF parts = <<>> THEN <<>>
  ELSE IF Len(parts) = 1 THEN parts[1]
  ELSE parts[1] \o <<c>> \o Join(Tail(parts), c)

UpperCase ==
  <<"A","B","C","D","E","F","G","H","I","J","K","L","M",
    "N","O","P","Q","R","S","T","U","V","W","X","Y","Z">>

LowerCase ==
  <<"a","b","c","d","e","f","g","h","i","j","k","l","m",
    "n","o","p","q","r","s","t","u","v","w","x","y","z">>

\* strings.ToLower on ASCII
ToLower(s) ==
  [i \in 1..Len(s) |->
     IF \E k \in 1..26 : UpperCase[k] = s[i]
     THEN LowerCase[CHOOSE k \in 1..26 : UpperCase[k] = s[i]]
     ELSE s[i]]

\* ---------------------------------------------------------------- blocklist

DoubleclickNet == <<"d","o","u","b","l","e","c","l","i","c","k",".","n","e","t">>

GoogleAnalyticsCom == <<"g","o","o","g","l","e","-","a","n","a","l","y","t","i","c","s",".","c","o","m">>

AdserviceGoogleCom == <<"a","d","s","e","r","v","i","c","e",".","g","o","o","g","l","e",".","c","o","m">>

FacebookNet == <<"f","a","c","e","b","o","o","k",".","n","e","t">>

\* criticalDomains: those of its entries that the modelled hosts can match
criticalDomains == <<GoogleAnalyticsCom, DoubleclickNet, AdserviceGoogleCom, FacebookNet>>

TrackerExampleOrg == <<"t","r","a","c","k","e","r",".","e","x","a","m","p","l","e",".","o","r","g">>

Net == <<"n","e","t">>

\* what assets.EmbeddedFiles holds under filters/domains.json: no readable file,
\* bytes that are not a JSON list of strings, or a list of domains
Unreadable == [readable |-> FALSE, json |-> FALSE, domainList |-> <<>>]

Malformed == [readable |-> TRUE, json |-> FALSE, domainList |-> <<>>]

DomainsJSON(list) == [readable |-> TRUE, json |-> TRUE, domainList |-> list]

\* the list the server is built with
ShippedFile == DomainsJSON(<<TrackerExampleOrg>>)

EmbeddedFiles ==
  { Unreadable, Malformed, ShippedFile,
    DomainsJSON(<<>>), DomainsJSON(<<Net, TrackerExampleOrg>>) }

\* the elements of a list
Range(list) == {list[i] : i \in 1..Len(list)}

\* NewBlocklist: the new Blocklist's domains (none when nil is returned) and
\* the error
NewBlocklist(file) ==
  LET critical == Range(criticalDomains)
  IN  IF ~file.readable
      THEN [domains |-> {}, err |-> "reading domains.json"]
      ELSE IF ~file.json
      THEN [domains |-> {}, err |-> "parsing domains.json"]
      ELSE [domains |-> critical \cup Range(file.domainList), err |-> NoError]

\* the blocklist NewServer gives the Server
ServerBlocklist(file) ==
  LET nb == NewBlocklist(file)
  IN  IF nb.err # NoError THEN {} ELSE nb.domains

\* Blocklist.IsBlocked: the domains tested, in order, up to the first match
IsBlockedTests(domains, host) ==
  IF host \in domains THEN <<host>>
  ELSE LET parts   == Split(host, ".")
           parents == IF Len(parts) < 3 THEN <<>>
                      ELSE [i \in 1..(Len(parts) - 2) |-> Join(From(parts, i), ".")]
           hits    == {i \in 1..Len(parents) : parents[i] \in domains}
       IN  <<host>> \o
           (IF hits = {} THEN parents
            ELSE SubSeq(parents, 1, CHOOSE i \in hits : \A j \in hits : i <= j))

\* a textual suffix test in place of the label walk
IsBlockedBySuffix(domains, host) ==
  \E d \in domains : Len(d) <= Len(host) /\ From(host, Len(host) - Len(d)) = d

\* Blocklist.IsBlocked
IsBlocked(domains, host) ==
  LET tests == IsBlockedTests(domains, host)
  IN  tests[Len(tests)] \in domains

\* ------------------------------------------------------ interception policy

\* proto.NetworkResourceType values
ResourceTypes ==
  {"Document", "Stylesheet", "Image", "Media", "Font", "Script", "XHR", "Fetch",
   "Prefetch", "EventSource", "WebSocket", "Manifest", "SignedExchange", "Ping",
   "Other"}

UnnecessaryTypes ==
  {"XHR", "Fetch", "Ping", "Prefetch", "SignedExchange", "EventSource", "Manifest"}

blockedExtensions ==
  { <<".","m","p","4">>, <<".","w","e","b","m">>, <<".","m","p","3">>, <<".","w","a","v">>, <<".","o","g","g">>, <<".","i","c","o">>, <<".","w","e","b","m","a","n","i","f","e","s","t">> }

blockedPaths == << <<"a","p","p","l","e","-","t","o","u","c","h","-","i","c","o","n">>, <<"a","n","d","r","o","i","d","-","c","h","r","o","m","e">>, <<"m","a","n","i","f","e","s","t",".","j","s","o","n">> >>

SchemeSeparator == <<":","/","/">>

\* extractHost
extractHost(rawURL) ==
  LET i  == Index(rawURL, SchemeSeparator)
      u1 == IF i # 0 - 1 THEN From(rawURL, i + 3) ELSE rawURL
      j  == IndexByte(u1, "/")
      u2 == IF j # 0 - 1 THEN Upto(u1, j) ELSE u1
      k  == IndexByte(u2, ":")
      u3 == IF k # 0 - 1 THEN Upto(u2, k) ELSE u2
  IN  ToLower(u3)

\* Config.BlockFonts and Config.BlockMedia
PolicyConfigs == [BlockFonts : BOOLEAN, BlockMedia : BOOLEAN]

\* the result of shouldBlock, the debug message it logs ("" when it allows) and
\* the domains it had Blocklist.IsBlocked test
Decision(block, log, tests) == [block |-> block, log |-> log, tests |-> tests]

\* shouldBlock with the blocklist step applied to every resource type
shouldBlockAnyType(cfg, domains, reqURL, reqType) ==
  LET idx == LastIndexByte(reqURL, ".")
  IN  IF cfg.BlockFonts /\ reqType = "Font"
      THEN Decision(TRUE, "blocked font", <<>>)
      ELSE IF cfg.BlockMedia /\ reqType \in {"Media", "WebSocket"}
      THEN Decision(TRUE, "blocked media", <<>>)
      ELSE IF cfg.BlockMedia /\ idx # 0 - 1 /\ From(reqURL, idx) \in blockedExtensions
      THEN Decision(TRUE, "blocked media", <<>>)
      ELSE IF reqType \in UnnecessaryTypes
      THEN Decision(TRUE, "blocked unnecessary", <<>>)
      ELSE IF \E n \in 1..Len(blockedPaths) : Contains(reqURL, blockedPaths[n])
      THEN Decision(TRUE, "blocked favicon/manifest", <<>>)
      ELSE LET host  == extractHost(reqURL)
               tests == IsBlockedTests(domains, host)
           IN  IF IsBlocked(domains, host)
               THEN Decision(TRUE, "blocked by blocklist", tests)
               ELSE Decision(FALSE, "", tests)

\* Server.shouldBlock
shouldBlock(cfg, domains, reqURL, reqType) ==
  LET idx == LastIndexByte(reqURL, ".")
  IN  IF cfg.BlockFonts /\ reqType = "Font"
      THEN Decision(TRUE, "blocked font", <<>>)
      ELSE IF cfg.BlockMedia /\ reqType \in {"Media", "WebSocket"}
      THEN Decision(TRUE, "blocked media", <<>>)
      ELSE IF cfg.BlockMedia /\ idx # 0 - 1 /\ From(reqURL, idx) \in blockedExtensions
      THEN Decision(TRUE, "blocked media", <<>>)
      ELSE IF reqType \in UnnecessaryTypes
      THEN Decision(TRUE, "blocked unnecessary", <<>>)
      ELSE IF \E n \in 1..Len(blockedPaths) : Contains(reqURL, blockedPaths[n])
      THEN Decision(TRUE, "blocked favicon/manifest", <<>>)
      ELSE IF reqType \notin {"Stylesheet", "Document"}
      THEN LET host  == extractHost(reqURL)
               tests == IsBlockedTests(domains, host)
           IN  IF IsBlocked(domains, host)
               THEN Decision(TRUE, "blocked by blocklist", tests)
               ELSE Decision(FALSE, "", tests)
      ELSE Decision(FALSE, "", <<>>)

\* ---------------------------------------------------------------- inputs

Reqs == 1..NumRequests

UserAgents ==
  { [len |-> 4,  matchesBotPattern |-> TRUE],
    [len |-> 64, matchesBotPattern |-> FALSE] }

RawURLs ==
  { <<>>,
    <<"a",".","c","o">>,
    <<"h","t","t","p","s",":","/","/","a",".","c","o">>,
    <<"h","t","t","p",":","/","/","b",".","c","o">> }

Queries ==
  { [preset |-> "", width |-> <<>>, height |-> <<>>],
    [preset |-> "", width |-> <<"8","0","1">>, height |-> <<>>] }

TargetURLs == {NormalizeURL(u) : u \in RawURLs \ {<<>>}}

ResolvedDimensions == {parseDimensions(q) : q \in Queries}

\* image payloads the browser may render
Images == {"img1", "img2"}

ContentTypes == {"image/webp", "image/png"}

NoETag == <<>>

NoUserAgent == [len |-> 0, matchesBotPattern |-> FALSE]

\* every ETag the server can compute for the modelled keys and ticks, tabulated
\* once (the empty right operand of @@ makes the table an explicit function)
ETagTable ==
  [k \in TargetURLs \X ResolvedDimensions \X (0..MaxNow) |->
     generateETag(k[1], k[2].Width, k[2].Height, k[3])] @@ <<>>

\* what a client sends as If-None-Match for a key: nothing, or an ETag of that
\* key from one of the modelled ticks
IfNoneMatchValues(url, dim) ==
  {NoETag} \cup {ETagTable[<<url, dim, t>>] : t \in 0..MaxNow}

\* an inbound GET /: User-Agent, url parameter, dimension parameters, full flag
\* and If-None-Match header
RequestInputs ==
  UNION { UNION { { [ua |-> ua, url |-> u, query |-> q, full |-> f, ifNoneMatch |-> m] :
                      ua \in UserAgents, f \in BOOLEAN,
                      m \in IF u = <<>> THEN {NoETag}
                            ELSE IfNoneMatchValues(NormalizeURL(u), parseDimensions(q)) } :
                  q \in Queries } :
          u \in RawURLs }

NoInput ==
  [ua |-> NoUserAgent, url |-> <<>>,
   query |-> [preset |-> "", width |-> <<>>, height |-> <<>>],
   full |-> FALSE, ifNoneMatch |-> NoETag]

\* the requests of the concurrent specification: one site at the default
\* dimensions, and a client that sends no If-None-Match or the ETag of the
\* current tick
ConcurrentURLs == {<<>>, <<"a",".","c","o">>}

\* the requests of a client that is no bot and asks for one site, at the
\* default width or at 801, full page or not
ClientInputs ==
  {in \in RequestInputs : ~isBot(in.ua) /\ in.url \in ConcurrentURLs \ {<<>>}}

ConcurrentQueries == {[preset |-> "", width |-> <<>>, height |-> <<>>]}

ConcurrentInputs ==
  [t \in 0..MaxNow |->
     {in \in RequestInputs :
        /\ in.url \in ConcurrentURLs
        /\ in.query \in ConcurrentQueries
        /\ \/ in.ifNoneMatch = NoETag
           \/ in.ifNoneMatch =
                ETagTable[<<NormalizeURL(in.url), parseDimensions(in.query), t>>]}]

\* width and height parameters sent to a direct caller of parseDimensions
DimensionParams ==
  { <<>>,
    <<"6","4","0">>,
    <<"0">>,
    <<"-","5">>,
    <<"1","2","p","x">>,
    <<"1","9","2","0">>,
    <<"1","9","2","1">>,
    <<"9","2","2","3","3","7","2","0","3","6","8","5","4","7","7","5","8","0","7">>,
    <<"9","2","2","3","3","7","2","0","3","6","8","5","4","7","7","5","8","0","8">> }

\* preset parameters: none, two known names and an unknown one
DimensionPresets == {"", "og", "mobile", "banner"}

DimensionQueries ==
  [preset : DimensionPresets, width : DimensionParams, height : DimensionParams]

\* domain parameters of GET /blocked
CheckedDomains ==
  { <<>>,
    <<"d","o","u","b","l","e","c","l","i","c","k",".","n","e","t">>,
    <<"a","d",".","d","o","u","b","l","e","c","l","i","c","k",".","n","e","t">>,
    <<"a",".","b",".","d","o","u","b","l","e","c","l","i","c","k",".","n","e","t">>,
    <<"n","o","t","d","o","u","b","l","e","c","l","i","c","k",".","n","e","t">>,
    <<"g","o","o","g","l","e",".","c","o","m">>,
    <<"a","d","s","e","r","v","i","c","e",".","g","o","o","g","l","e",".","c","o","m">>,
    <<"x",".","n","e","t">>,
    <<"n","e","t">>,
    <<"e","x","a","m","p","l","e",".","o","r","g">>,
    <<"a","d","s",".","t","r","a","c","k","e","r",".","e","x","a","m","p","l","e",".","o","r","g">>,
    <<"a","d",".","d","o","u","b","l","e","c","l","i","c","k",".","n","e","t",".">> }

\* URLs of the requests a loading page issues
RequestURLs ==
  { <<"h","t","t","p","s",":","/","/","a",".","c","o","/">>,
    <<"h","t","t","p","s",":","/","/","a",".","c","o","/","s","t","y","l","e",".","c","s","s">>,
    <<"h","t","t","p","s",":","/","/","a",".","c","o","/","f","o","n","t",".","w","o","f","f","2">>,
    <<"h","t","t","p","s",":","/","/","a",".","c","o","/","v",".","m","p","4">>,
    <<"h","t","t","p","s",":","/","/","a",".","c","o","/","v",".","m","p","4","?","t","=","1">>,
    <<"h","t","t","p","s",":","/","/","a",".","c","o","/","i",".","p","n","g","?","f","=","v",".","m","p","4">>,
    <<"h","t","t","p","s",":","/","/","a",".","c","o","/","a","p","p","l","e","-","t","o","u","c","h","-","i","c","o","n",".","p","n","g">>,
    <<"h","t","t","p","s",":","/","/","a",".","c","o","/","i",".","p","n","g","?","m","=","m","a","n","i","f","e","s","t",".","j","s","o","n">>,
    <<"h","t","t","p","s",":","/","/","a","d",".","d","o","u","b","l","e","c","l","i","c","k",".","n","e","t","/","p",".","g","i","f">>,
    <<"h","t","t","p","s",":","/","/","n","o","t","d","o","u","b","l","e","c","l","i","c","k",".","n","e","t","/","p",".","g","i","f">>,
    <<"h","t","t","p","s",":","/","/","A","D",".","D","o","u","b","l","e","C","l","i","c","k",".","n","e","t",":","8","4","4","3","/","p",".","j","s">>,
    <<"h","t","t","p","s",":","/","/","d","o","u","b","l","e","c","l","i","c","k",".","n","e","t">>,
    <<"h","t","t","p","s",":","/","/","a",".","c","o","/","f","a","v","i","c","o","n",".","i","c","o">> }

\* the blocklists NewServer can give the Server
BlocklistValues == {ServerBlocklist(file) : file \in EmbeddedFiles}

\* shouldBlock for every modelled configuration, blocklist and request,
\* tabulated once
DecisionTable ==
  [k \in PolicyConfigs \X BlocklistValues \X RequestURLs \X ResourceTypes |->
     shouldBlock(k[1], k[2], k[3], k[4])] @@ <<>>

\* the url and dimensions of the generateETag calls made directly: those of the
\* modelled requests, and a pair of requests for a.co/ at width 801 and a.co/80
\* at width 1
HashedKeys ==
  (TargetURLs \X ResolvedDimensions)
    \cup { <<NormalizeURL(<<"a",".","c","o","/">>),
             parseDimensions([preset |-> "", width |-> <<"8","0","1">>, height |-> <<>>])>>,
           <<NormalizeURL(<<"a",".","c","o","/","8","0">>),
             parseDimensions([preset |-> "", width |-> <<"1">>, height |-> <<>>])>> }

\* the bytes generateETag hashes and the token it returns for those calls,
\* tabulated once
HashedTable ==
  [k \in {<<key[1], key[2], t>> : key \in HashedKeys, t \in 0..MaxNow} |->
     [hashed |-> ETagInput(k[1], k[2].Width, k[2].Height, k[3]),
      etag   |-> generateETag(k[1], k[2].Width, k[2].Height, k[3])]] @@ <<>>

\* ------------------------------------------------------------------ capture
\* What the browser does during one capture: the stage that fails ("none" when
\* all succeed), the text of the browser's error, the image it renders, and
\* whether the failure is silence: the browser never answers the stage's call.

CaptureStages == {"page", "viewport", "navigate", "load", "screenshot"}

StageErrorPrefix ==
  [st \in CaptureStages |->
     CASE st = "page"       -> "creating page"
       [] st = "viewport"   -> "setting viewport"
       [] st = "navigate"   -> "navigation timeout"
       [] st = "load"       -> "load timeout"
       [] st = "screenshot" -> "capturing screenshot"]

BrowserErrorTexts == {"net::ERR_NAME_NOT_RESOLVED", "i/o timeout"}

\* the error of a context whose deadline has passed
DeadlineExceeded == "context deadline exceeded"

\* the stages called on page.Timeout(s.config.PageTimeout)
BoundedStages == {"navigate", "load"}

NoBehaviour == [failAt |-> "none", text |-> "", image |-> NoData, silent |-> FALSE]

\* a browser that answers every call
BrowserBehaviours ==
  [failAt : {"none"} \cup CaptureStages,
   text : BrowserErrorTexts, image : Images, silent : {FALSE}]

\* a browser that never answers the call of one stage; a call with a deadline
\* then fails with the context's error
SilentBehaviours ==
  [failAt : CaptureStages, text : {DeadlineExceeded}, image : {NoData}, silent : {TRUE}]

\* the call of stage st never returns
Hangs(b, st) == b.silent /\ b.failAt = st /\ st \notin BoundedStages

\* capture returns to its caller
Returns(b) == \A st \in CaptureStages : ~Hangs(b, st)

\* the characters of the modelled error texts
ErrorChars ==
  ("creating page" :> <<"c","r","e","a","t","i","n","g"," ","p","a","g","e">>) @@
  ("setting viewport" :> <<"s","e","t","t","i","n","g"," ","v","i","e","w","p","o","r","t">>) @@
  ("navigation timeout" :> <<"n","a","v","i","g","a","t","i","o","n"," ","t","i","m","e","o","u","t">>) @@
  ("load timeout" :> <<"l","o","a","d"," ","t","i","m","e","o","u","t">>) @@
  ("capturing screenshot" :> <<"c","a","p","t","u","r","i","n","g"," ","s","c","r","e","e","n","s","h","o","t">>) @@
  ("net::ERR_NAME_NOT_RESOLVED" :> <<"n","e","t",":",":","E","R","R","_","N","A","M","E","_","N","O","T","_","R","E","S","O","L","V","E","D">>) @@
  ("i/o timeout" :> <<"i","/","o"," ","t","i","m","e","o","u","t">>) @@
  ("context deadline exceeded" :> <<"c","o","n","t","e","x","t"," ","d","e","a","d","l","i","n","e"," ","e","x","c","e","e","d","e","d">>) @@
  ("" :> <<>>)

\* err.Error() of fmt.Errorf("<prefix>: %w", err)
ErrorString(err) == ErrorChars[err.prefix] \o <<":", " ">> \o ErrorChars[err.text]

\* the errors capture can return
CaptureErrors ==
  {[prefix |-> StageErrorPrefix[st], text |-> t] :
     st \in CaptureStages, t \in BrowserErrorTexts \cup {DeadlineExceeded}}

\* strings.Contains(err.Error(), "timeout"), tabulated over the errors capture
\* can return
ContainsTimeout ==
  [err \in CaptureErrors |->
     Contains(ErrorString(err), <<"t","i","m","e","o","u","t">>)] @@ <<>>

NoErr == [prefix |-> "", text |-> ""]

\* Timing: for each field, whether capture has assigned it a measured duration
NoTiming ==
  [Setup |-> FALSE, Navigation |-> FALSE, Load |-> FALSE, Screenshot |-> FALSE,
   Total |-> FALSE]

\* the Timing capture returns when it fails at a stage ("none": succeeds)
TimingAt(failAt) ==
  [Setup      |-> failAt \notin {"page", "viewport"},
   Navigation |-> failAt \notin {"page", "viewport"},
   Load       |-> failAt \notin {"page", "viewport", "navigate"},
   Screenshot |-> failAt \in {"screenshot", "none"},
   Total      |-> failAt \in {"screenshot", "none"}]

\* Server.capture, when it returns: bytes, Timing and error
\* (fmt.Errorf("<prefix>: %w", err))
capture(b) ==
  IF b.failAt = "none"
  THEN [screenshot |-> b.image, timing |-> TimingAt(b.failAt), err |-> NoErr]
  ELSE [screenshot |-> NoData, timing |-> TimingAt(b.failAt),
        err |-> [prefix |-> StageErrorPrefix[b.failAt], text |-> b.text]]

\* ---------------------------------------------------------------- responses

NoResp ==
  [status |-> 0, message |-> "", body |-> NoData, contentType |-> "",
   etag |-> NoETag, xcache |-> "", timing |-> NoTiming]

\* handleError(w, code, message)
ErrorPage(code, message) ==
  [status |-> code, message |-> message, body |-> NoData,
   contentType |-> "text/html; charset=utf-8", etag |-> NoETag, xcache |-> "", timing |-> NoTiming]

IndexPage ==
  [status |-> 200, message |-> "Screenshot", body |-> NoData,
   contentType |-> "text/html; charset=utf-8", etag |-> NoETag, xcache |-> "", timing |-> NoTiming]

NotModified ==
  [status |-> 304, message |-> "", body |-> NoData, contentType |-> "",
   etag |-> NoETag, xcache |-> "", timing |-> NoTiming]

\* a cached response written without the X-Cache header
writeCachedResponseUnmarked(data, contentType, etag) ==
  [status |-> 200, message |-> "", body |-> data, contentType |-> contentType,
   etag |-> etag, xcache |-> "", timing |-> NoTiming]

\* writeCachedResponse: the stored bytes under the stored content type, X-Cache: HIT
writeCachedResponse(data, contentType, etag) ==
  [status |-> 200, message |-> "", body |-> data, contentType |-> contentType,
   etag |-> etag, xcache |-> "HIT", timing |-> NoTiming]

\* timing: the X-Setup-Ms, X-Nav-Ms, X-Load-Ms, X-Screenshot-Ms and X-Total-Ms
\* headers
writeResponse(screenshot, etag, timing) ==
  [status |-> 200, message |-> "", body |-> screenshot,
   contentType |-> "image/webp", etag |-> etag, xcache |-> "", timing |-> timing]

handleCaptureError(err) ==
  IF ContainsTimeout[err]
  THEN ErrorPage(504, "Timeout loading page")
  ELSE ErrorPage(500, "Failed to capture screenshot")


\* ------------------------------------------------------ protected endpoints

NoPassword == <<>>

Secret == <<"s","e","c","r","e","t">>

Wrong == <<"w","r","o","n","g">>

\* values of Config.Password: none, or a password
Passwords == {NoPassword, Secret}

\* r.BasicAuth() of a request: no Authorization header, or the password of one
AuthHeaders ==
  {[ok |-> FALSE, password |-> <<>>]}
    \cup {[ok |-> TRUE, password |-> p] : p \in {<<>>, Secret, Wrong}}

ProtectedPaths == {"/screenshots", "/domains.json"}

\* http.Error(w, message, code)
HttpError(code, message) ==
  [status |-> code, wwwAuthenticate |-> "",
   contentType |-> "text/plain; charset=utf-8", body |-> message]

\* handleDomains: the embedded file as it is
handleDomains(file) ==
  IF ~file.readable THEN HttpError(404, "not found")
  ELSE [status |-> 200, wwwAuthenticate |-> "", contentType |-> "application/json",
        body |-> file.domainList]

\* a handler whose test of s.repo is inverted
handleScreenshotsInvertedNilTest(listing) ==
  HttpError(503, "database not configured")

\* handleScreenshots: listing is what s.repo.List() returned (run always gives
\* the Server a repository)
handleScreenshots(listing) ==
  IF listing.err # NoError THEN HttpError(500, "internal server error")
  ELSE [status |-> 200, wwwAuthenticate |-> "", contentType |-> "application/json",
        body |-> listing.json]

\* basicAuth(next): with no password configured the request goes to next; with
\* one, a request without credentials or with another password is answered 401
\* with a WWW-Authenticate header and next does not run
basicAuth(pw, auth, next) ==
  IF pw = NoPassword THEN next
  ELSE IF ~auth.ok \/ auth.password # pw
  THEN [HttpError(401, "Unauthorized") EXCEPT !.wwwAuthenticate = "Basic"]
  ELSE next

\* -------------------------------------------------------------------- state

VARIABLES
  now,        \* the clock, in ticks
  rows,       \* the screenshots table
  nextId,     \* the next AUTOINCREMENT id of the table
  semaphore,  \* number of permits in s.semaphore's buffer
  sendq,      \* requests blocked in the select, in arrival order
  req,        \* per request: position in handleScreenshot, its locals, and the
              \* steps it has taken (did, history)
  saved,      \* keys saved successfully so far (history)
  input,      \* the request in progress as the client sent it (history, SpecSeq)
  calls,      \* the latest successful Save calls of a direct caller, newest first
  tokens,     \* the latest generateETag calls of a direct caller, newest first
  config,     \* s.config: BlockFonts and BlockMedia
  blocklist,  \* s.blocklist.domains
  blocklistErr, \* the error NewBlocklist returned to NewServer (history)
  password,   \* s.config.Password
  embedded,   \* filters/domains.json of assets.EmbeddedFiles
  issued,     \* the image responses a client has received: the request answered,
              \* the time and the ETag (history, SpecClient)
  resolved,   \* the latest parseDimensions call of a direct caller
  checked,    \* the latest GET /blocked request and its answer
  hijack,     \* the latest request the router intercepted and its disposition
  cap,        \* a Server.capture call of a direct caller, stage by stage
  listed,     \* the latest List call of a direct caller: the table it read and
              \* what it returned
  admin       \* the latest request to /screenshots or /domains.json and its answer

serverVars == <<config, blocklist, blocklistErr, password, embedded>>

probeVars == <<resolved, checked, hijack, cap, listed, admin>>

vars ==
  <<now, rows, nextId, semaphore, sendq, req, saved, input, calls, tokens,
    serverVars, issued, probeVars>>

Idle ==
  [pc |-> "idle", userAgent |-> NoUserAgent, ifNoneMatch |-> NoETag,
   targetURL |-> <<>>, width |-> 0, height |-> 0, fullPage |-> FALSE,
   etag |-> NoETag, cancelled |-> FALSE, deferred |-> FALSE,
   screenshot |-> NoData, timing |-> NoTiming, resp |-> NoResp, did |-> {},
   b |-> NoBehaviour, navigated |-> <<>>]

Gone == [Idle EXCEPT !.pc = "gone"]

Key(url, width, height) == <<url, width, height>>

\* handleScreenshot from its entry to the If-None-Match test: the request's
\* locals and, when it has answered, its response; t is time.Now()
EntryIgnoringIfNoneMatch(in, t) ==
  IF isBot(in.ua)
  THEN [Idle EXCEPT !.pc = "done", !.userAgent = in.ua,
                    !.resp = ErrorPage(403, "Forbidden")]
  ELSE IF in.url = <<>>
  THEN [Idle EXCEPT !.pc = "done", !.userAgent = in.ua, !.resp = IndexPage]
  ELSE LET targetURL == NormalizeURL(in.url)
           dim == parseDimensions(in.query)
           etag == ETagTable[<<targetURL, dim, t>>]
       IN  [Idle EXCEPT !.userAgent = in.ua, !.ifNoneMatch = in.ifNoneMatch,
                        !.targetURL = targetURL,
                        !.width = dim.Width, !.height = dim.Height,
                        !.fullPage = in.full, !.etag = etag,
                        !.pc = IF in.full THEN "select" ELSE "lookup"]

\* the handler with the If-None-Match test made before the bot test
EntryTestingBotsLast(in, t) ==
  LET targetURL == NormalizeURL(in.url)
      dim == parseDimensions(in.query)
  IN  IF in.url # <<>> /\ in.ifNoneMatch = ETagTable[<<targetURL, dim, t>>]
      THEN [Idle EXCEPT !.userAgent = in.ua, !.ifNoneMatch = in.ifNoneMatch,
                        !.targetURL = targetURL,
                        !.width = dim.Width, !.height = dim.Height,
                        !.fullPage = in.full, !.etag = in.ifNoneMatch,
                        !.pc = "done", !.resp = NotModified]
      ELSE IF isBot(in.ua)
      THEN [Idle EXCEPT !.pc = "done", !.userAgent = in.ua,
                        !.resp = ErrorPage(403, "Forbidden")]
      ELSE IF in.url = <<>>
      THEN [Idle EXCEPT !.pc = "done", !.userAgent = in.ua, !.resp = IndexPage]
      ELSE [Idle EXCEPT !.userAgent = in.ua, !.ifNoneMatch = in.ifNoneMatch,
                        !.targetURL = targetURL,
                        !.width = dim.Width, !.height = dim.Height,
                        !.fullPage = in.full,
                        !.etag = ETagTable[<<targetURL, dim, t>>],
                        !.pc = IF in.full THEN "select" ELSE "lookup"]

Entry(in, t) ==
  IF isBot(in.ua)
  THEN [Idle EXCEPT !.pc = "done", !.userAgent = in.ua,
                    !.resp = ErrorPage(403, "Forbidden")]
  ELSE IF in.url = <<>>
  THEN [Idle EXCEPT !.pc = "done", !.userAgent = in.ua, !.resp = IndexPage]
  ELSE LET targetURL == NormalizeURL(in.url)
           dim == parseDimensions(in.query)
           etag == ETagTable[<<targetURL, dim, t>>]
           locals == [Idle EXCEPT !.userAgent = in.ua,
                                  !.ifNoneMatch = in.ifNoneMatch,
                                  !.targetURL = targetURL,
                                  !.width = dim.Width, !.height = dim.Height,
                                  !.fullPage = in.full, !.etag = etag]
       IN  IF in.ifNoneMatch = etag
           THEN [locals EXCEPT !.pc = "done", !.resp = NotModified]
           ELSE [locals EXCEPT !.pc = IF in.full THEN "select" ELSE "lookup"]

\* Entry tabulated over the modelled inputs and ticks
EntryTable == [t \in 0..MaxNow |-> [in \in RequestInputs |-> Entry(in, t)]]

ConcurrentEntryResults ==
  [t \in 0..MaxNow |-> {EntryTable[t][in] : in \in ConcurrentInputs[t]}]

CapturingEntryResults ==
  {e \in ConcurrentEntryResults[0] : e.pc \in {"lookup", "select"}}

\* the browser during the captures of the requests followed call by call: it
\* renders, fails to render, or stops answering at one stage
CapturingBehaviours ==
  {b \in BrowserBehaviours :
     b.failAt \in {"none", "screenshot"} /\ b.text = "i/o timeout" /\ b.image = "img1"}
    \cup SilentBehaviours

\* ScreenshotRepository.Save: the table after the call and the error returned;
\* dbOk is FALSE when the database rejects the statement
SaveAppending(table, id, url, data, contentType, width, height, t, dbOk) ==
  IF dbOk
  THEN [table |-> InsertAppending(table, id, url, data, contentType, width, height, t),
        err |-> NoError]
  ELSE [table |-> table, err |-> ErrSaveFailed]

\* a Save that keeps the row already stored for the url (INSERT OR IGNORE)
SaveKeepingFirst(table, id, url, data, contentType, width, height, t, dbOk) ==
  IF ~dbOk THEN [table |-> table, err |-> ErrSaveFailed]
  ELSE IF ConflictingRows(table, url, width, height) # {}
  THEN [table |-> table, err |-> NoError]
  ELSE [table |-> InsertAppending(table, id, url, data, contentType, width, height, t),
        err |-> NoError]

Save(table, id, url, data, contentType, width, height, t, dbOk) ==
  IF dbOk
  THEN [table |-> InsertOrReplace(table, id, url, data, contentType, width, height, t),
        err |-> NoError]
  ELSE [table |-> table, err |-> ErrSaveFailed]

\* a handler that goes on to Save whatever capture returned
AfterCaptureAlwaysSaving(rq, res) ==
  IF rq.fullPage
  THEN [rq EXCEPT !.pc = "done", !.did = @ \cup {"capture"},
                  !.screenshot = res.screenshot, !.timing = res.timing,
                  !.resp = writeResponse(res.screenshot, rq.etag, res.timing)]
  ELSE [rq EXCEPT !.pc = "save", !.did = @ \cup {"capture"},
                  !.screenshot = res.screenshot, !.timing = res.timing]

\* a handler that saves the capture of a full-page request too
AfterCaptureSavingFullPage(rq, res) ==
  IF res.err # NoErr
  THEN [rq EXCEPT !.pc = "done", !.did = @ \cup {"capture"},
                  !.resp = handleCaptureError(res.err)]
  ELSE [rq EXCEPT !.pc = "save", !.did = @ \cup {"capture"},
                  !.screenshot = res.screenshot, !.timing = res.timing]

\* a handler that tests its context after capture and gives up when cancelled
AfterCaptureHonouringCancel(rq, res) ==
  IF rq.cancelled
  THEN [rq EXCEPT !.pc = "done", !.did = @ \cup {"capture"},
                  !.resp = ErrorPage(503, "Request cancelled")]
  ELSE IF res.err # NoErr
  THEN [rq EXCEPT !.pc = "done", !.did = @ \cup {"capture"},
                  !.resp = handleCaptureError(res.err)]
  ELSE IF rq.fullPage
  THEN [rq EXCEPT !.pc = "done", !.did = @ \cup {"capture"},
                  !.screenshot = res.screenshot, !.timing = res.timing,
                  !.resp = writeResponse(res.screenshot, rq.etag, res.timing)]
  ELSE [rq EXCEPT !.pc = "save", !.did = @ \cup {"capture"},
                  !.screenshot = res.screenshot, !.timing = res.timing]

\* handleScreenshot after s.capture returned res: a failure is answered by
\* handleCaptureError, a full-page success by writeResponse, any other success
\* goes on to Save
AfterCapture(rq, res) ==
  IF res.err # NoErr
  THEN [rq EXCEPT !.pc = "done", !.did = @ \cup {"capture"},
                  !.resp = handleCaptureError(res.err)]
  ELSE IF rq.fullPage
  THEN [rq EXCEPT !.pc = "done", !.did = @ \cup {"capture"},
                  !.screenshot = res.screenshot, !.timing = res.timing,
                  !.resp = writeResponse(res.screenshot, rq.etag, res.timing)]
  ELSE [rq EXCEPT !.pc = "save", !.did = @ \cup {"capture"},
                  !.screenshot = res.screenshot, !.timing = res.timing]

\* s.capture(targetURL, ...) is called: targetURL is the url that capture
\* hands to page.Navigate
Navigating(rq) == [rq EXCEPT !.navigated = rq.targetURL]

\* a handler that answers a failed Save with the error page
ResponseReportingSaveError(rq, err) ==
  IF err # NoError THEN ErrorPage(500, "Failed to capture screenshot")
  ELSE writeResponse(rq.screenshot, rq.etag, rq.timing)

\* handleScreenshot after s.repo.Save returned err: the warning is logged and
\* the response is written from the handler's locals
ResponseAfterSave(rq, err) == writeResponse(rq.screenshot, rq.etag, rq.timing)

\* ------------------------------------------------------------ permit pool

\* the cases of the select statement of handleScreenshot
SelectCasesSendOnly == {"send"}

SelectCases == {"send", "done"}

\* the cases that can proceed: a send when the buffer has room, the receive from
\* r.Context().Done() when the request is cancelled
SelectReadyNoCapacityTest(sem, cancelled) ==
  {c \in SelectCases : \/ c = "send"
                       \/ c = "done" /\ cancelled}

SelectReady(sem, cancelled) ==
  {c \in SelectCases : \/ c = "send" /\ sem < MaxConcurrent
                       \/ c = "done" /\ cancelled}

\* a request record once the send case has run: permit held, release deferred
Acquired(rq) ==
  [rq EXCEPT !.pc = "capture", !.deferred = TRUE, !.did = @ \cup {"acquire"}]

\* a request record once the Done case has run
CancelledOut(rq) ==
  [rq EXCEPT !.pc = "done",
             !.resp = ErrorPage(503, "Request cancelled")]

InFlight == {"lookup", "select", "blocked", "capture", "capturing", "save"}

\* DefaultConfig: BlockFonts and BlockMedia
DefaultPolicy == [BlockFonts |-> TRUE, BlockMedia |-> TRUE]

NoResolved == [query |-> [preset |-> "", width |-> <<>>, height |-> <<>>],
               dim |-> Dimension(0, 0)]

NoCheck == [domain |-> <<>>, status |-> 0, body |-> "", tests |-> <<>>]

NoHijack ==
  [url |-> <<>>, type |-> "", decision |-> Decision(FALSE, "", <<>>),
   dispositions |-> <<>>]

NoReturn == [screenshot |-> NoData, timing |-> NoTiming, err |-> NoErr]

NoListing == [table |-> {}, json |-> <<>>, err |-> NoError]

NoAdmin ==
  [path |-> "", auth |-> [ok |-> FALSE, password |-> <<>>], err |-> NoError,
   resp |-> [status |-> 0, wwwAuthenticate |-> "", contentType |-> "", body |-> <<>>]]

NoCapture ==
  [pc |-> "idle", b |-> NoBehaviour, fullPage |-> FALSE, page |-> "none",
   router |-> "none", defers |-> <<>>, events |-> <<>>, timing |-> NoTiming,
   ret |-> NoReturn]

\* ------------------------------------------------------------------ actions

\* run: the repository is opened on an empty database, and NewServer builds
\* the Server from the configuration and the embedded domain list
StartServer(file, cfg, pw) ==
  /\ now = 0
  /\ rows = {}
  /\ nextId = 1
  /\ semaphore = 0
  /\ sendq = <<>>
  /\ req = [r \in Reqs |-> Idle]
  /\ saved = {}
  /\ input = NoInput
  /\ calls = <<>>
  /\ tokens = <<>>
  /\ config = cfg
  /\ blocklist = ServerBlocklist(file)
  /\ blocklistErr = NewBlocklist(file).err
  /\ resolved = NoResolved
  /\ checked = NoCheck
  /\ hijack = NoHijack
  /\ cap = NoCapture
  /\ password = pw
  /\ embedded = file
  /\ issued = {}
  /\ listed = NoListing
  /\ admin = NoAdmin

Start(file, cfg) == StartServer(file, cfg, NoPassword)

\* the server as deployed: DefaultConfig and the shipped domain list
Init == Start(ShippedFile, DefaultPolicy)

\* the server under every configuration of the policy and every content of
\* the embedded file
InitPolicy == \E file \in EmbeddedFiles : \E cfg \in PolicyConfigs : Start(file, cfg)

\* the HTTP server dispatches request r to handleScreenshot, which runs up to
\* the If-None-Match test; requests are numbered in the order they are dispatched
Begin(r) ==
  /\ req[r].pc = "idle"
  /\ IF r = 1 THEN TRUE ELSE req[r - 1].pc # "idle"
  /\ \E e \in ConcurrentEntryResults[now] : req' = [req EXCEPT ![r] = e]
  /\ UNCHANGED <<now, rows, nextId, semaphore, sendq, saved, input, calls, tokens,
                 serverVars, issued, probeVars>>

\* the same, for the requests that go on to the cache or the permit pool
BeginCapturing(r) ==
  /\ req[r].pc = "idle"
  /\ IF r = 1 THEN TRUE ELSE req[r - 1].pc # "idle"
  /\ \E e \in CapturingEntryResults : req' = [req EXCEPT ![r] = e]
  /\ UNCHANGED <<now, rows, nextId, semaphore, sendq, saved, input, calls, tokens,
                 serverVars, issued, probeVars>>

\* the same, with one request in progress at a time and its input recorded
Dispatch(r) ==
  /\ req[r].pc = "idle"
  /\ IF r = 1 THEN TRUE ELSE req[r - 1].pc = "gone"
  /\ \E in \in RequestInputs :
       /\ req' = [req EXCEPT ![r] = EntryTable[now][in]]
       /\ input' = in
  /\ UNCHANGED <<now, rows, nextId, semaphore, sendq, saved, calls, tokens,
                 serverVars, issued, probeVars>>

\* the cache lookup of a request that is not full-page
Lookup(r) ==
  /\ req[r].pc = "lookup"
  /\ \E dbOk \in BOOLEAN :
       LET rq == req[r]
           g  == Get(rows, rq.targetURL, rq.width, rq.height, dbOk)
       IN  req' = [req EXCEPT ![r] =
                     IF g.err = NoError
                     THEN [rq EXCEPT !.pc = "done", !.did = @ \cup {"get"},
                                     !.resp = writeCachedResponse(g.data, g.contentType,
                                                                  rq.etag)]
                     ELSE [rq EXCEPT !.pc = "select",
                                     !.did = @ \cup (IF g.err = ErrNotFound
                                                      THEN {"get"}
                                                      ELSE {"get", "get failed"})]]
  /\ UNCHANGED <<now, rows, nextId, semaphore, sendq, saved, input, calls, tokens,
                 serverVars, issued, probeVars>>

\* the select statement: one ready case runs, or the request blocks
Select(r) ==
  /\ req[r].pc = "select"
  /\ LET ready == SelectReady(semaphore, req[r].cancelled)
     IN  IF ready = {}
         THEN /\ req' = [req EXCEPT ![r].pc = "blocked", ![r].did = @ \cup {"wait"}]
              /\ sendq' = Append(sendq, r)
              /\ UNCHANGED semaphore
         ELSE \E c \in ready :
                IF c = "send"
                THEN /\ semaphore' = semaphore + 1
                     /\ req' = [req EXCEPT ![r] = Acquired(req[r])]
                     /\ UNCHANGED sendq
                ELSE /\ req' = [req EXCEPT ![r] = CancelledOut(req[r])]
                     /\ UNCHANGED <<semaphore, sendq>>
  /\ UNCHANGED <<now, rows, nextId, saved, input, calls, tokens,
                 serverVars, issued, probeVars>>

\* the request's context is cancelled (the client went away); a request blocked
\* in the select is woken by it and runs the Done case
Cancel(r) ==
  /\ req[r].pc \in InFlight
  /\ ~req[r].cancelled
  /\ IF req[r].pc = "blocked" /\ "done" \in SelectCases
     THEN /\ req' = [req EXCEPT ![r] = CancelledOut([req[r] EXCEPT !.cancelled = TRUE])]
          /\ sendq' = SelectSeq(sendq, LAMBDA q : q # r)
     ELSE /\ req' = [req EXCEPT ![r].cancelled = TRUE,
                                ![r].did = IF req[r].pc = "capturing"
                                           THEN @ \cup {"cancel in capture"} ELSE @]
          /\ UNCHANGED sendq
  /\ UNCHANGED <<now, rows, nextId, semaphore, saved, input, calls, tokens,
                 serverVars, issued, probeVars>>

\* s.capture runs and returns, and the handler acts on its result
Capture(r) ==
  /\ req[r].pc = "capture"
  /\ \E b \in BrowserBehaviours :
       LET rq  == req[r]
           res == capture(b)
       IN  req' = [req EXCEPT ![r] = AfterCapture(Navigating(rq), res)]
  /\ UNCHANGED <<now, rows, nextId, semaphore, sendq, saved, input, calls, tokens,
                 serverVars, issued, probeVars>>

\* s.capture is called: the browser's behaviour during this call is b
StartCapture(r) ==
  /\ req[r].pc = "capture"
  /\ \E b \in CapturingBehaviours :
       req' = [req EXCEPT ![r].pc = "capturing", ![r].b = b]
  /\ UNCHANGED <<now, rows, nextId, semaphore, sendq, saved, input, calls, tokens,
                 serverVars, issued, probeVars>>

\* s.capture returns, which it does when no call of it hangs, and the handler
\* acts on its result
FinishCapture(r) ==
  /\ req[r].pc = "capturing"
  /\ Returns(req[r].b)
  /\ req' = [req EXCEPT ![r] =
                AfterCapture(Navigating([req[r] EXCEPT !.b = NoBehaviour]),
                             capture(req[r].b))]
  /\ UNCHANGED <<now, rows, nextId, semaphore, sendq, saved, input, calls, tokens,
                 serverVars, issued, probeVars>>

\* s.repo.Save of the captured image, then writeResponse whatever Save returned
SaveAndRespond(r) ==
  /\ req[r].pc = "save"
  /\ \E dbOk \in BOOLEAN :
       LET rq == req[r]
           sv == Save(rows, nextId, rq.targetURL, rq.screenshot, CacheContentType,
                      rq.width, rq.height, now, dbOk)
       IN  /\ rows' = sv.table
           /\ nextId' = IF sv.err = NoError THEN nextId + 1 ELSE nextId
           /\ saved' = IF sv.err = NoError
                       THEN saved \cup {Key(rq.targetURL, rq.width, rq.height)}
                       ELSE saved
           /\ req' = [req EXCEPT ![r] =
                        [rq EXCEPT !.pc = "done",
                                   !.did = @ \cup (IF sv.err = NoError THEN {"save"}
                                                   ELSE {"save", "save failed"}),
                                   !.resp = ResponseAfterSave(rq, sv.err)]]
  /\ UNCHANGED <<now, semaphore, sendq, input, calls, tokens,
                 serverVars, issued, probeVars>>

\* a handler whose deferred receive runs only after a 200 response
ReturnKeepingPermitOnError(r) ==
  /\ req[r].pc = "done"
  /\ IF req[r].deferred /\ req[r].resp.status = 200
     THEN IF sendq # <<>>
          THEN /\ req' = [req EXCEPT ![r] = Gone,
                                     ![Head(sendq)] = Acquired(req[Head(sendq)])]
               /\ sendq' = Tail(sendq)
               /\ UNCHANGED semaphore
          ELSE /\ req' = [req EXCEPT ![r] = Gone]
               /\ semaphore' = semaphore - 1
               /\ UNCHANGED sendq
     ELSE /\ req' = [req EXCEPT ![r] = Gone]
          /\ UNCHANGED <<semaphore, sendq>>
  /\ input' = NoInput
  /\ UNCHANGED <<now, rows, nextId, saved, calls, tokens,
                 serverVars, issued, probeVars>>

\* the handler returns and its deferred receive from s.semaphore runs: with a
\* sender blocked on the full channel the permit passes to the first of them
Return(r) ==
  /\ req[r].pc = "done"
  /\ IF req[r].deferred
     THEN IF sendq # <<>>
          THEN /\ req' = [req EXCEPT ![r] = Gone,
                                     ![Head(sendq)] = Acquired(req[Head(sendq)])]
               /\ sendq' = Tail(sendq)
               /\ UNCHANGED semaphore
          ELSE /\ req' = [req EXCEPT ![r] = Gone]
               /\ semaphore' = semaphore - 1
               /\ UNCHANGED sendq
     ELSE /\ req' = [req EXCEPT ![r] = Gone]
          /\ UNCHANGED <<semaphore, sendq>>
  /\ input' = NoInput
  /\ UNCHANGED <<now, rows, nextId, saved, calls, tokens,
                 serverVars, issued, probeVars>>

\* a client that keeps the ETags of the images it received sends its next
\* request: without If-None-Match, or with one of those ETags
Revalidate(r) ==
  /\ req[r].pc = "idle"
  /\ IF r = 1 THEN TRUE ELSE req[r - 1].pc = "gone"
  /\ \E in \in ClientInputs :
       /\ in.ifNoneMatch \in {NoETag} \cup {e.etag : e \in issued}
       /\ req' = [req EXCEPT ![r] = EntryTable[now][in]]
       /\ input' = in
  /\ UNCHANGED <<now, rows, nextId, semaphore, sendq, saved, calls, tokens,
                 serverVars, issued, probeVars>>

\* the handler returns as in Return, and the client receives the response
Receive(r) ==
  /\ req[r].pc = "done"
  /\ IF req[r].deferred
     THEN IF sendq # <<>>
          THEN /\ req' = [req EXCEPT ![r] = Gone,
                                     ![Head(sendq)] = Acquired(req[Head(sendq)])]
               /\ sendq' = Tail(sendq)
               /\ UNCHANGED semaphore
          ELSE /\ req' = [req EXCEPT ![r] = Gone]
               /\ semaphore' = semaphore - 1
               /\ UNCHANGED sendq
     ELSE /\ req' = [req EXCEPT ![r] = Gone]
          /\ UNCHANGED <<semaphore, sendq>>
  /\ input' = NoInput
  /\ issued' = IF req[r].resp.status = 200 /\ req[r].resp.etag # NoETag
               THEN issued \cup {[url |-> req[r].targetURL, width |-> req[r].width,
                                   height |-> req[r].height, full |-> req[r].fullPage,
                                   at |-> now, etag |-> req[r].resp.etag]}
               ELSE issued
  /\ UNCHANGED <<now, rows, nextId, saved, calls, tokens, serverVars, probeVars>>

\* the clock advances
Tick ==
  /\ now < MaxNow
  /\ now' = now + 1
  /\ UNCHANGED <<rows, nextId, semaphore, sendq, req, saved, input, calls, tokens,
                 serverVars, issued, probeVars>>

\* a direct caller of the repository saves an image
RepoSave(url, data, contentType, dim) ==
  /\ nextId <= MaxRowId
  /\ \E dbOk \in BOOLEAN :
       LET sv == Save(rows, nextId, url, data, contentType, dim.Width, dim.Height,
                      now, dbOk)
           call == [url |-> url, data |-> data, contentType |-> contentType,
                    width |-> dim.Width, height |-> dim.Height]
       IN  /\ rows' = sv.table
           /\ nextId' = IF sv.err = NoError THEN nextId + 1 ELSE nextId
           /\ saved' = IF sv.err = NoError
                       THEN saved \cup {Key(url, dim.Width, dim.Height)}
                       ELSE saved
           /\ calls' = IF sv.err = NoError
                       THEN <<call>> \o SubSeq(calls, 1, IF calls = <<>> THEN 0 ELSE 1)
                       ELSE calls
  /\ UNCHANGED <<now, semaphore, sendq, req, input, tokens,
                 serverVars, issued, probeVars>>

\* a direct caller lists the table
ListCall ==
  /\ \E scan \in ScanOrders(rows), dbOk \in BOOLEAN :
       LET l == List(rows, scan, dbOk)
       IN  listed' = [table |-> rows, json |-> l.json, err |-> l.err]
  /\ UNCHANGED <<now, rows, nextId, semaphore, sendq, req, saved, input, calls, tokens,
                 serverVars, issued, resolved, checked, hijack, cap, admin>>

\* GET /screenshots or GET /domains.json behind basicAuth
Protected(path, auth) ==
  /\ \E scan \in ScanOrders(rows), dbOk \in BOOLEAN :
       LET listing == List(rows, scan, dbOk)
           next == IF path = "/screenshots" THEN handleScreenshots(listing)
                   ELSE handleDomains(embedded)
       IN  admin' = [path |-> path, auth |-> auth,
                     err |-> IF path = "/screenshots" THEN listing.err ELSE NoError,
                     resp |-> basicAuth(password, auth, next)]
  /\ UNCHANGED <<now, rows, nextId, semaphore, sendq, req, saved, input, calls, tokens,
                 serverVars, issued, resolved, checked, hijack, cap, listed>>

\* a direct caller computes an ETag
ETagCall(url, dim) ==
  /\ tokens' = <<[url |-> url, width |-> dim.Width, height |-> dim.Height, at |-> now,
                  hashed |-> HashedTable[<<url, dim, now>>].hashed,
                  etag |-> HashedTable[<<url, dim, now>>].etag]>>
               \o SubSeq(tokens, 1, IF Len(tokens) < 2 THEN Len(tokens) ELSE 2)
  /\ UNCHANGED <<now, rows, nextId, semaphore, sendq, req, saved, input, calls,
                 serverVars, issued, probeVars>>

\* a direct caller resolves the dimensions of a query
DimensionsCall(q) ==
  /\ resolved' = [query |-> q, dim |-> parseDimensions(q)]
  /\ UNCHANGED <<now, rows, nextId, semaphore, sendq, req, saved, input, calls, tokens,
                 serverVars, issued, checked, hijack, cap, listed, admin>>

\* a handler whose IsBlocked remembers the hosts it found blocked
CheckDomainRemembering(domain) ==
  /\ checked' =
       IF domain = <<>>
       THEN [domain |-> domain, status |-> 400, body |-> "missing domain parameter",
             tests |-> <<>>]
       ELSE [domain |-> domain, status |-> 200,
             body |-> IF IsBlocked(blocklist, domain) THEN "blocked" ELSE "allowed",
             tests |-> IsBlockedTests(blocklist, domain)]
  /\ blocklist' = IF domain # <<>> /\ IsBlocked(blocklist, domain)
                  THEN blocklist \cup {domain} ELSE blocklist
  /\ UNCHANGED <<now, rows, nextId, semaphore, sendq, req, saved, input, calls, tokens,
                 config, blocklistErr, password, embedded, issued, resolved, hijack,
                 cap, listed, admin>>

\* handleBlocked: GET /blocked?domain=...
CheckDomain(domain) ==
  /\ checked' =
       IF domain = <<>>
       THEN [domain |-> domain, status |-> 400, body |-> "missing domain parameter",
             tests |-> <<>>]
       ELSE [domain |-> domain, status |-> 200,
             body |-> IF IsBlocked(blocklist, domain) THEN "blocked" ELSE "allowed",
             tests |-> IsBlockedTests(blocklist, domain)]
  /\ UNCHANGED <<now, rows, nextId, semaphore, sendq, req, saved, input, calls, tokens,
                 serverVars, issued, resolved, hijack, cap, listed, admin>>

\* the handler without the return after Response.Fail
HijackWithoutReturn(reqURL, reqType) ==
  /\ LET d == DecisionTable[<<config, blocklist, reqURL, reqType>>]
     IN  hijack' = [url |-> reqURL, type |-> reqType, decision |-> d,
                    dispositions |-> (IF d.block
                                      THEN <<"Response.Fail(BlockedByClient)">>
                                      ELSE <<>>) \o <<"ContinueRequest">>]
  /\ UNCHANGED <<now, rows, nextId, semaphore, sendq, req, saved, input, calls, tokens,
                 serverVars, issued, resolved, checked, cap, listed, admin>>

\* the handler of createRequestHandler: the router hands it one request
Hijack(reqURL, reqType) ==
  /\ LET d == DecisionTable[<<config, blocklist, reqURL, reqType>>]
     IN  hijack' = [url |-> reqURL, type |-> reqType, decision |-> d,
                    dispositions |-> IF d.block
                                     THEN <<"Response.Fail(BlockedByClient)">>
                                     ELSE <<"ContinueRequest">>]
  /\ UNCHANGED <<now, rows, nextId, semaphore, sendq, req, saved, input, calls, tokens,
                 serverVars, issued, resolved, checked, cap, listed, admin>>

\* ------------------------------------------------- Server.capture by stages

\* the error capture wraps when stage st fails
StageError(st) == [prefix |-> StageErrorPrefix[st], text |-> cap.b.text]

\* "return nil, timing, fmt.Errorf(...)" at stage st: the results are set and
\* the deferred calls are still to run
FailAt(st, timing) ==
  [cap EXCEPT !.pc = "unwind", !.events = Append(@, st), !.timing = timing,
              !.ret = [screenshot |-> NoData, timing |-> timing,
                       err |-> StageError(st)]]

probeFrame ==
  UNCHANGED <<now, rows, nextId, semaphore, sendq, req, saved, input, calls, tokens,
              serverVars, issued, resolved, checked, hijack, listed, admin>>

\* a direct caller calls capture; b is what the browser will do
CaptureCall(b, fullPage) ==
  /\ cap.pc \in {"idle", "returned"}
  /\ cap' = [NoCapture EXCEPT !.pc = "page", !.b = b, !.fullPage = fullPage]
  /\ probeFrame

\* s.browser.Page, then defer page.Close()
CreatePage ==
  /\ cap.pc = "page"
  /\ ~Hangs(cap.b, "page")
  /\ cap' = IF cap.b.failAt = "page" THEN FailAt("page", cap.timing)
            ELSE [cap EXCEPT !.pc = "viewport", !.events = Append(@, "page"),
                             !.page = "open", !.defers = <<"page.Close">> \o @]
  /\ probeFrame

\* page.SetViewport
SetViewport ==
  /\ cap.pc = "viewport"
  /\ ~Hangs(cap.b, "viewport")
  /\ cap' = IF cap.b.failAt = "viewport" THEN FailAt("viewport", cap.timing)
            ELSE [cap EXCEPT !.pc = "router", !.events = Append(@, "viewport")]
  /\ probeFrame

\* a capture that starts the router and does not defer its stop
StartRouterWithoutDefer ==
  /\ cap.pc = "router"
  /\ cap' = [cap EXCEPT !.pc = "navigate", !.events = Append(@, "router"),
                        !.router = "running", !.timing.Setup = TRUE]
  /\ probeFrame

\* page.HijackRequests, router.MustAdd, go router.Run(), defer router.MustStop()
StartRouter ==
  /\ cap.pc = "router"
  /\ cap' = [cap EXCEPT !.pc = "navigate", !.events = Append(@, "router"),
                        !.router = "running",
                        !.defers = <<"router.MustStop">> \o @,
                        !.timing.Setup = TRUE]
  /\ probeFrame

\* a capture that goes on to the load wait when navigation fails
NavigateIgnoringError ==
  /\ cap.pc = "navigate"
  /\ cap' = [cap EXCEPT !.pc = "load", !.events = Append(@, "navigate"),
                        !.timing.Navigation = TRUE]
  /\ probeFrame

\* page.Timeout(PageTimeout).Navigate(url)
Navigate ==
  /\ cap.pc = "navigate"
  /\ cap' = IF cap.b.failAt = "navigate"
            THEN FailAt("navigate", [cap.timing EXCEPT !.Navigation = TRUE])
            ELSE [cap EXCEPT !.pc = "load", !.events = Append(@, "navigate"),
                             !.timing.Navigation = TRUE]
  /\ probeFrame

\* page.Timeout(PageTimeout).WaitLoad()
WaitLoad ==
  /\ cap.pc = "load"
  /\ cap' = IF cap.b.failAt = "load"
            THEN FailAt("load", [cap.timing EXCEPT !.Load = TRUE])
            ELSE [cap EXCEPT !.pc = "screenshot", !.events = Append(@, "load"),
                             !.timing.Load = TRUE]
  /\ probeFrame

\* page.Screenshot, then the return statement of either outcome
Screenshot ==
  /\ cap.pc = "screenshot"
  /\ ~Hangs(cap.b, "screenshot")
  /\ LET timing == [cap.timing EXCEPT !.Screenshot = TRUE, !.Total = TRUE]
     IN  cap' = IF cap.b.failAt = "screenshot"
                THEN FailAt("screenshot", timing)
                ELSE [cap EXCEPT !.pc = "unwind", !.events = Append(@, "screenshot"),
                                 !.timing = timing,
                                 !.ret = [screenshot |-> cap.b.image,
                                          timing |-> timing, err |-> NoErr]]
  /\ probeFrame

\* the deferred calls run, the latest deferred first
RunDeferred ==
  /\ cap.pc = "unwind"
  /\ cap.defers # <<>>
  /\ LET call == Head(cap.defers)
     IN  cap' = [cap EXCEPT !.defers = Tail(@), !.events = Append(@, call),
                           !.router = IF call = "router.MustStop" THEN "stopped" ELSE @,
                           !.page = IF call = "page.Close" THEN "closed" ELSE @]
  /\ probeFrame

\* capture returns to its caller
CaptureReturn ==
  /\ cap.pc = "unwind"
  /\ cap.defers = <<>>
  /\ cap' = [cap EXCEPT !.pc = "returned"]
  /\ probeFrame

\* ----------------------------------------------------------- specifications

\* concurrent requests contending for the permit pool
Next ==
  \/ \E r \in Reqs : Begin(r)
  \/ \E r \in Reqs : Lookup(r)
  \/ \E r \in Reqs : Select(r)
  \/ \E r \in Reqs : Cancel(r)
  \/ \E r \in Reqs : Capture(r)
  \/ \E r \in Reqs : SaveAndRespond(r)
  \/ \E r \in Reqs : Return(r)

Spec == Init /\ [][Next]_vars

\* concurrent requests whose captures may hang, every handler scheduled as
\* long as it can take a step; clients need not send requests nor cancel them
NextCapturing ==
  \/ \E r \in Reqs : BeginCapturing(r)
  \/ \E r \in Reqs : Lookup(r)
  \/ \E r \in Reqs : Select(r)
  \/ \E r \in Reqs : Cancel(r)
  \/ \E r \in Reqs : StartCapture(r)
  \/ \E r \in Reqs : FinishCapture(r)
  \/ \E r \in Reqs : SaveAndRespond(r)
  \/ \E r \in Reqs : Return(r)

HandlersRun ==
  \A r \in Reqs :
    /\ WF_vars(Lookup(r))
    /\ WF_vars(Select(r))
    /\ WF_vars(StartCapture(r))
    /\ WF_vars(FinishCapture(r))
    /\ WF_vars(SaveAndRespond(r))
    /\ WF_vars(Return(r))

SpecCapturing == Init /\ [][NextCapturing]_vars /\ HandlersRun

\* one client's requests, one after another, as time passes
NextClient ==
  \/ \E r \in Reqs : Revalidate(r)
  \/ \E r \in Reqs : Lookup(r)
  \/ \E r \in Reqs : Select(r)
  \/ \E r \in Reqs : Capture(r)
  \/ \E r \in Reqs : SaveAndRespond(r)
  \/ \E r \in Reqs : Receive(r)
  \/ Tick

SpecClient == Init /\ [][NextClient]_vars

\* requests handled one after another, each traced from its input, as time passes
NextSeq ==
  \/ \E r \in Reqs : Dispatch(r)
  \/ \E r \in Reqs : Lookup(r)
  \/ \E r \in Reqs : Select(r)
  \/ \E r \in Reqs : Cancel(r)
  \/ \E r \in Reqs : Capture(r)
  \/ \E r \in Reqs : SaveAndRespond(r)
  \/ \E r \in Reqs : Return(r)
  \/ Tick

SpecSeq == Init /\ [][NextSeq]_vars

\* the repository driven directly
NextRepo ==
  \/ \E u \in TargetURLs, d \in Images, c \in ContentTypes, dim \in ResolvedDimensions :
       RepoSave(u, d, c, dim)
  \/ Tick

SpecRepo == Init /\ [][NextRepo]_vars

\* the repository saved to and listed
ListedDimensions == {parseDimensions([preset |-> "", width |-> <<>>, height |-> <<>>])}

NextList ==
  \/ \E u \in TargetURLs, d \in Images, dim \in ListedDimensions :
       RepoSave(u, d, CacheContentType, dim)
  \/ ListCall
  \/ Tick

SpecList == Init /\ [][NextList]_vars

\* the server under every setting of the password
InitAuth == \E pw \in Passwords : StartServer(ShippedFile, DefaultPolicy, pw)

\* the protected endpoints requested while the repository is saved to
NextAuth ==
  \/ \E path \in ProtectedPaths, auth \in AuthHeaders : Protected(path, auth)
  \/ \E u \in TargetURLs, dim \in ListedDimensions :
       RepoSave(u, "img1", CacheContentType, dim)

SpecAuth == InitAuth /\ [][NextAuth]_vars

\* generateETag called directly as the clock advances
NextETag ==
  \/ \E key \in HashedKeys : ETagCall(key[1], key[2])
  \/ Tick

SpecETag == Init /\ [][NextETag]_vars

\* parseDimensions called directly
NextDims == \E q \in DimensionQueries : DimensionsCall(q)

SpecDims == Init /\ [][NextDims]_vars

\* the blocklist queried through GET /blocked, under every construction of the
\* server
NextBlocklist == \E d \in CheckedDomains : CheckDomain(d)

SpecBlocklist == InitPolicy /\ [][NextBlocklist]_vars

\* the callers of Blocklist.IsBlocked, GET /blocked and the router's handler,
\* under every construction of the server
NextReads ==
  \/ \E d \in CheckedDomains : CheckDomain(d)
  \/ \E u \in RequestURLs, t \in {"Image", "Document"} : Hijack(u, t)

SpecReads == InitPolicy /\ [][NextReads]_vars

\* the router's handler run on intercepted requests, under every construction
\* of the server
NextPolicy == \E u \in RequestURLs, t \in ResourceTypes : Hijack(u, t)

SpecPolicy == InitPolicy /\ [][NextPolicy]_vars

\* Server.capture called directly and run stage by stage
NextCapture ==
  \/ \E b \in BrowserBehaviours \cup SilentBehaviours, f \in BOOLEAN : CaptureCall(b, f)
  \/ CreatePage
  \/ SetViewport
  \/ StartRouter
  \/ Navigate
  \/ WaitLoad
  \/ Screenshot
  \/ RunDeferred
  \/ CaptureReturn

SpecCapture == Init /\ [][NextCapture]_vars

\* ------------------------------------------------------------------- claims

\* requests whose Server.capture is in progress
Running == {r \in Reqs : req[r].pc = "capture"}

\* requests that hold a permit
Holders == {r \in Reqs : "acquire" \in req[r].did}

\* a request answered before it reached the select statement
AnsweredEarly(rq) ==
  \/ rq.resp.status \in {403, 304}
  \/ rq.resp = IndexPage
  \/ rq.resp.xcache = "HIT"

\* C1: with pool capacity MaxConcurrent at most MaxConcurrent executions of
\* Server.capture are in progress in every reachable state; capture runs only
\* under a permit; a request waits only while no permit is free, and a request
\* that passed the select without a permit has ended with the cancelled outcome.
C1_ConcurrencyBound ==
  /\ Cardinality(Running) <= MaxConcurrent
  /\ semaphore <= MaxConcurrent
  /\ \A r \in Reqs :
       LET rq == req[r]
       IN  /\ (rq.pc \in {"capture", "save"} \/ "capture" \in rq.did)
                => "acquire" \in rq.did
           /\ rq.pc = "blocked"
                => semaphore = MaxConcurrent /\ "acquire" \notin rq.did
           /\ (rq.pc = "done" /\ "acquire" \notin rq.did /\ ~AnsweredEarly(rq))
                => rq.resp = ErrorPage(503, "Request cancelled")

\* all permits are held by running captures and one more request is waiting
C1_Witness ==
  /\ Cardinality(Running) = MaxConcurrent
  /\ \E r \in Reqs : req[r].pc = "blocked"

\* C2: the number of permits held equals the number of requests between their
\* acquire and their return, on every path (capture failed, Save failed or
\* succeeded); a request holds a permit exactly while its release is deferred;
\* once every request has returned all permits are free.
C2_PermitsReleased ==
  /\ semaphore = Cardinality(Holders)
  /\ \A r \in Reqs : req[r].deferred <=> r \in Holders
  /\ \A r \in Reqs : req[r].pc \in {"idle", "gone"} => r \notin Holders
  /\ (\A r \in Reqs : req[r].pc = "gone") => semaphore = 0 /\ sendq = <<>>

\* every request has returned, at least one of them after capturing and saving
C2_Witness ==
  /\ \A r \in Reqs : req[r].pc = "gone"
  /\ nextId > 1
  /\ semaphore = 0

\* C3: a request blocked in the select whose cancellation fires is answered
\* 503 "Request cancelled" in that step, which changes neither the pool nor
\* the cache; a request answered 503 has not acquired a permit, run capture
\* or saved, and no blocked request stays blocked once cancelled.
C3_CancelledWhileBlocked ==
  /\ [](\A r \in Reqs :
          /\ req[r].pc = "blocked" => ~req[r].cancelled
          /\ req[r].resp.status = 503
               => /\ req[r].resp = ErrorPage(503, "Request cancelled")
                  /\ req[r].pc = "done"
                  /\ req[r].did \cap {"acquire", "capture", "save"} = {}
                  /\ ~req[r].deferred)
  /\ [][\A r \in Reqs :
          (req[r].pc = "blocked" /\ req'[r].cancelled)
            => /\ req'[r].pc = "done"
               /\ req'[r].resp = ErrorPage(503, "Request cancelled")
               /\ rows' = rows
               /\ semaphore' = semaphore]_vars

\* a request that waited with all permits held has been answered 503
C3_Witness ==
  \E r \in Reqs :
    /\ req[r].resp.status = 503
    /\ "wait" \in req[r].did
    /\ semaphore = MaxConcurrent

\* what Get returns for a stored image
Found(data, contentType) == [data |-> data, contentType |-> contentType, err |-> NoError]

SameKey(a, b) == a.url = b.url /\ a.width = b.width /\ a.height = b.height

\* C4: after a successful Save(u,d,c,w,h) with no later Save, Get(u,w,h) returns
\* (d,c), and Get(u,w',h') returns ErrNotFound for every other (w',h') that was
\* never saved for u.
C4_RoundTrip ==
  calls # <<>> =>
    LET c == calls[1]
    IN  /\ Get(rows, c.url, c.width, c.height, TRUE) = Found(c.data, c.contentType)
        /\ \A d \in ResolvedDimensions :
             (d # Dimension(c.width, c.height)
                /\ Key(c.url, d.Width, d.Height) \notin saved)
               => Get(rows, c.url, d.Width, d.Height, TRUE) = NoRow

\* the latest Save followed a Save of another site, and its url has dimensions
\* that were never saved
C4_Witness ==
  /\ Len(calls) = 2
  /\ calls[1].url # calls[2].url
  /\ \E d \in ResolvedDimensions :
       /\ d # Dimension(calls[1].width, calls[1].height)
       /\ Key(calls[1].url, d.Width, d.Height) \notin saved

\* C5: after two successive Saves for the same (url,width,height), with the
\* same or different bytes and content type, exactly one row has that key and
\* Get returns the bytes and content type of the second Save.
C5_Upsert ==
  (Len(calls) = 2 /\ SameKey(calls[1], calls[2])) =>
    LET c == calls[1]
    IN  /\ Cardinality(MatchingRows(rows, c.url, c.width, c.height)) = 1
        /\ Get(rows, c.url, c.width, c.height, TRUE) = Found(c.data, c.contentType)

\* two successive Saves of one key with different bytes and content type
C5_Witness ==
  /\ Len(calls) = 2
  /\ SameKey(calls[1], calls[2])
  /\ calls[1].data # calls[2].data
  /\ calls[1].contentType # calls[2].contentType

\* C6: after any sequence of Saves the table holds at most one row per
\* (url,width,height).
C6_UniqueKey ==
  \A a \in rows : \A b \in rows : SameKey(a, b) => a = b

\* two rows are stored after at least one row was replaced
C6_Witness ==
  /\ Cardinality(rows) = 2
  /\ nextId > 3

\* C7 as claimed: a Save for (u,w,h) leaves the result of Get unchanged for every
\* other key, keys of the same url at other dimensions included.
C7_SaveLeavesOtherKeys ==
  [][\A u \in TargetURLs : \A d \in ResolvedDimensions :
       (calls' # <<>> /\ ~SameKey(calls'[1], [url |-> u, width |-> d.Width,
                                              height |-> d.Height]))
         => Get(rows', u, d.Width, d.Height, TRUE) = Get(rows, u, d.Width, d.Height, TRUE)
    ]_vars

\* C8 as claimed: once a non-full-page request has saved (url,width,height),
\* every later non-full-page request for that key whose cache read did not fail
\* is served from the cache, without a permit and without Server.capture.
C8_ServedFromCacheOnceSaved ==
  \A r \in Reqs :
    LET rq == req[r]
    IN  (/\ "get" \in rq.did
         /\ "get failed" \notin rq.did
         /\ "save" \notin rq.did
         /\ Key(rq.targetURL, rq.width, rq.height) \in saved)
          => /\ rq.resp.xcache = "HIT"
             /\ rq.did = {"get"}

\* the request in progress
Current == {r \in Reqs : req[r].pc \notin {"idle", "gone"}}

\* C9: a request that is not a bot, names a url and sends as If-None-Match the
\* ETag the handler computes for its (url,width,height) is answered 304 at once:
\* it has not read the cache, acquired a permit or run Server.capture; and a 304
\* is only ever given that way.
C9_NotModified ==
  \A r \in Current :
    LET rq == req[r]
    IN  /\ (~isBot(input.ua) /\ input.url # <<>>)
             => /\ rq.etag \in {ETagTable[<<NormalizeURL(input.url),
                                              Dimension(rq.width, rq.height), t>>] :
                                    t \in 0..now}
                /\ input.ifNoneMatch = rq.etag
                     => /\ rq.pc = "done"
                        /\ rq.resp = NotModified
                        /\ rq.did = {}
                        /\ ~rq.deferred
        /\ rq.resp.status = 304
             => /\ ~isBot(input.ua)
                /\ input.ifNoneMatch = rq.etag
                /\ rq.did = {}

\* a 304 given in the second hour while the cache holds the image of that key
C9_Witness ==
  \E r \in Current :
    /\ req[r].resp = NotModified
    /\ now >= TicksPerHour
    /\ input.ifNoneMatch =
         ETagTable[<<req[r].targetURL, Dimension(req[r].width, req[r].height), now>>]
    /\ MatchingRows(rows, req[r].targetURL, req[r].width, req[r].height) # {}

SameTriple(a, b) == a.url = b.url /\ a.width = b.width /\ a.height = b.height

\* C10: two generateETag calls with the same (url,width,height) in the same
\* clock hour return the same token, and calls in consecutive hours hash
\* different inputs and return different tokens; the token is that of the
\* triple and the hour alone.
C10_ETagStability ==
  \A i \in 1..Len(tokens) : \A j \in 1..Len(tokens) :
    LET a == tokens[i]
        b == tokens[j]
    IN  SameTriple(a, b) =>
          /\ HourOf(a.at) = HourOf(b.at) => a.etag = b.etag /\ a.hashed = b.hashed
          /\ HourOf(b.at) = HourOf(a.at) + 1
               => a.hashed # b.hashed /\ a.etag # b.etag

\* three calls for one triple: two at different ticks of one hour, one in the next
C10_Witness ==
  /\ Len(tokens) = 3
  /\ SameTriple(tokens[1], tokens[2]) /\ SameTriple(tokens[2], tokens[3])
  /\ HourOf(tokens[3].at) = HourOf(tokens[2].at)
  /\ tokens[3].at # tokens[2].at
  /\ HourOf(tokens[1].at) = HourOf(tokens[2].at) + 1

\* ------------------------------------------------- claims on the dimensions

\* a parameter that is a decimal number: digits after an optional sign
IsDecimal(param) ==
  LET digits == IF param # <<>> /\ Head(param) \in {"+", "-"} THEN Tail(param) ELSE param
  IN  digits # <<>> /\ \A i \in 1..Len(digits) : IsDigit(digits[i])

\* the number a decimal parameter denotes is positive and above max
AboveMaximum(param, max) ==
  IsDecimal(param) /\ Head(param) # "-" /\ DigitsValue(StripZeros(
      IF Head(param) = "+" THEN Tail(param) ELSE param), 0) > max

\* a parameter that is present and non-numeric, zero or negative
Unusable(param) ==
  /\ param # <<>>
  /\ \/ ~IsDecimal(param)
     \/ Head(param) = "-"
     \/ StripZeros(IF Head(param) = "+" THEN Tail(param) ELSE param) = <<>>

\* the preset a query selects
SelectedPreset(q) ==
  IF q.preset \in PresetNames THEN presets[q.preset] ELSE presets["thumb"]

Called == resolved # NoResolved

\* C11 as claimed: the resolved width lies in 1..MaxWidth and the height in
\* 1..MaxHeight; a width or height parameter above the maximum resolves to
\* exactly the maximum; a non-numeric, zero or negative parameter resolves to
\* the selected preset's value.
C11_DimensionsClamped ==
  Called =>
    LET q == resolved.query
        d == resolved.dim
    IN  /\ d.Width \in 1..MaxWidth
        /\ d.Height \in 1..MaxHeight
        /\ AboveMaximum(q.width, MaxWidth) => d.Width = MaxWidth
        /\ AboveMaximum(q.height, MaxHeight) => d.Height = MaxHeight
        /\ Unusable(q.width) => d.Width = SelectedPreset(q).Width
        /\ Unusable(q.height) => d.Height = SelectedPreset(q).Height

\* a parameter that denotes a number in 1..max
Usable(param, max) ==
  /\ IsDecimal(param)
  /\ ~Unusable(param)
  /\ ~AboveMaximum(param, max)

ValueOf(param) == DigitsValue(IF Head(param) = "+" THEN Tail(param) ELSE param, 0)

\* C12: with no preset, width or height the dimensions are thumb's 800x420; an
\* unknown preset name also gives thumb; a known preset gives its table values
\* (og 1200x630, mobile 375x667); an explicit valid width or height replaces
\* that dimension and leaves the other one to the preset.
C12_PresetResolution ==
  Called =>
    LET q == resolved.query
        d == resolved.dim
        bare == q.width = <<>> /\ q.height = <<>>
    IN  /\ (bare /\ q.preset \in {"", "banner"}) => d = Dimension(800, 420)
        /\ (bare /\ q.preset = "og") => d = Dimension(1200, 630)
        /\ (bare /\ q.preset = "mobile") => d = Dimension(375, 667)
        /\ Usable(q.width, MaxWidth) => d.Width = ValueOf(q.width)
        /\ Usable(q.height, MaxHeight) => d.Height = ValueOf(q.height)
        /\ q.width = <<>> => d.Width = SelectedPreset(q).Width
        /\ q.height = <<>> => d.Height = SelectedPreset(q).Height

\* a known preset with an explicit width: og at width 640 is 640x630
C12_Witness ==
  /\ Called
  /\ resolved.query.preset = "og"
  /\ resolved.query.width = <<"6","4","0">>
  /\ resolved.query.height = <<>>
  /\ resolved.dim = Dimension(640, 630)

\* ------------------------------------------------- claims on the blocklist

\* the label-aligned proper suffixes of a host that have at least two labels:
\* the text after one of its dots, with a dot left in it
AlignedSuffixes(host) ==
  {From(host, i) : i \in {j \in 1..Len(host) :
                            /\ host[j] = "."
                            /\ \E k \in (j + 1)..Len(host) : host[k] = "."}}

Asked == checked.status = 200

\* C13: IsBlocked(h) is true exactly when h is in the blocked set or a
\* label-aligned proper suffix of h with at least two labels is in it; every
\* subdomain of a blocked domain is blocked, a host that only shares a textual
\* suffix with one is not, and a single-label suffix is never tested.
C13_SuffixMatch ==
  Asked =>
    LET h == checked.domain
    IN  /\ checked.body = "blocked"
             <=> (h \in blocklist \/ AlignedSuffixes(h) \cap blocklist # {})
        /\ checked.body \in {"blocked", "allowed"}
        /\ \A i \in 2..Len(checked.tests) :
             \E k \in 1..Len(checked.tests[i]) : checked.tests[i][k] = "."

\* the blocklist holds doubleclick.net and net, and a.b.doubleclick.net is
\* blocked on the second suffix tested
C13_Witness ==
  /\ DoubleclickNet \in blocklist
  /\ Net \in blocklist
  /\ checked.domain = <<"a",".","b",".">> \o DoubleclickNet
  /\ checked.body = "blocked"
  /\ checked.tests = << <<"a",".","b",".">> \o DoubleclickNet,
                        <<"b",".">> \o DoubleclickNet,
                        DoubleclickNet >>

\* C14 as claimed: when NewBlocklist failed, the server runs with a blocklist
\* that holds exactly the critical domains, so that GET /blocked answers
\* "blocked" for doubleclick.net.
C14_DegradedBlocklist ==
  blocklistErr # NoError =>
    /\ blocklist = Range(criticalDomains)
    /\ (Asked /\ checked.domain = DoubleclickNet) => checked.body = "blocked"

\* ------------------------------------------ claims on the interception policy

\* the position at which the first of the bytes in cs occurs in s, Len(s) if none
FirstOf(s, cs) ==
  LET hits == {i \in 0..(Len(s) - 1) : s[i + 1] \in cs}
  IN  IF hits = {} THEN Len(s) ELSE CHOOSE i \in hits : \A j \in hits : i <= j

\* the path of a URL: from the first slash after the authority up to the query
\* string or fragment
PathOf(url) ==
  LET i    == Index(url, SchemeSeparator)
      rest == IF i # 0 - 1 THEN From(url, i + 3) ELSE url
      hier == Upto(rest, FirstOf(rest, {"?", "#"}))
  IN  From(hier, FirstOf(hier, {"/"}))

\* the file extension of a URL: the last dot of the last segment of its path
\* and what follows it
FileExtension(url) ==
  LET path == PathOf(url)
      name == IF path = <<>> THEN <<>> ELSE From(path, LastIndexByte(path, "/") + 1)
      dot  == LastIndexByte(name, ".")
  IN  IF dot = 0 - 1 THEN <<>> ELSE From(name, dot)

\* a host is on the blocklist: it or one of its label-aligned suffixes of at
\* least two labels is in the set
OnBlocklist(domains, host) ==
  host \in domains \/ AlignedSuffixes(host) \cap domains # {}

\* the ordered decision of the six rules, first match winning
SixRuleDecision(cfg, domains, url, type) ==
  IF cfg.BlockFonts /\ type = "Font" THEN TRUE
  ELSE IF cfg.BlockMedia /\ (type \in {"Media", "WebSocket"}
                              \/ FileExtension(url) \in blockedExtensions) THEN TRUE
  ELSE IF type \in {"XHR", "Fetch", "Ping", "Prefetch", "SignedExchange",
                     "EventSource", "Manifest"} THEN TRUE
  ELSE IF \E n \in 1..Len(blockedPaths) : Contains(PathOf(url), blockedPaths[n]) THEN TRUE
  ELSE IF type \notin {"Stylesheet", "Document"}
          /\ OnBlocklist(domains, extractHost(url)) THEN TRUE
  ELSE FALSE

Intercepted == hijack # NoHijack

\* C15 as claimed: for every request URL, resource type, BlockFonts, BlockMedia
\* and blocked set, shouldBlock returns the result of the six ordered rules.
C15_SixRules ==
  Intercepted =>
    hijack.decision.block = SixRuleDecision(config, blocklist, hijack.url, hijack.type)

\* C16: for a request of type Stylesheet or Document the decision is the same
\* under every blocked set, and shouldBlock does not consult IsBlocked.
C16_BlocklistIndependence ==
  (Intercepted /\ hijack.type \in {"Stylesheet", "Document"}) =>
    /\ hijack.decision.tests = <<>>
    /\ hijack.decision.log # "blocked by blocklist"
    /\ \A domains \in BlocklistValues :
         DecisionTable[<<config, domains, hijack.url, hijack.type>>] = hijack.decision

\* a stylesheet from a blocked host is let through
C16_Witness ==
  /\ Intercepted
  /\ hijack.type = "Stylesheet"
  /\ DoubleclickNet \in blocklist
  /\ extractHost(hijack.url) = <<"a","d",".">> \o DoubleclickNet
  /\ ~hijack.decision.block
  /\ hijack.dispositions = <<"ContinueRequest">>

\* ------------------------------------------------------- claims on capture

\* the stages in the order of the pipeline
StageOrder == <<"page", "viewport", "router", "navigate", "load", "screenshot">>

\* the stages a capture has run so far, in the order it ran them
StagesRun == SelectSeq(cap.events, LAMBDA e : e \in Range(StageOrder))

\* the error text of each stage
ClaimedError ==
  [page |-> "creating page", viewport |-> "setting viewport",
   navigate |-> "navigation timeout", load |-> "load timeout",
   screenshot |-> "capturing screenshot"]

Returning == cap.pc \in {"unwind", "returned"}

\* C17: capture runs its stages in the order create page, set viewport, start
\* router, navigate, wait for load, render; when a stage fails no later stage
\* runs and capture returns nil bytes with that stage's error; bytes are
\* returned only when all stages succeeded.
C17_StageOrder ==
  /\ StagesRun = SubSeq(StageOrder, 1, Len(StagesRun))
  /\ \A st \in DOMAIN ClaimedError :
       (cap.b.failAt = st /\ st \in Range(StagesRun)) =>
         /\ StagesRun[Len(StagesRun)] = st
         /\ Returning
         /\ cap.ret.screenshot = NoData
         /\ cap.ret.err.prefix = ClaimedError[st]
  /\ Returning =>
       /\ cap.ret.err = NoErr <=> StagesRun = StageOrder /\ cap.b.failAt = "none"
       /\ cap.ret.screenshot # NoData <=> cap.ret.err = NoErr
       /\ cap.ret.err = NoErr => cap.ret.screenshot = cap.b.image
       /\ cap.ret.screenshot = capture(cap.b).screenshot
       /\ cap.ret.err = capture(cap.b).err

\* a capture has returned after its load wait failed
C17_Witness ==
  /\ cap.pc = "returned"
  /\ cap.b.failAt = "load"
  /\ StagesRun = <<"page", "viewport", "router", "navigate", "load">>
  /\ cap.ret.err.prefix = "load timeout"
  /\ cap.ret.screenshot = NoData

\* the position of the first occurrence of e in the events of the capture, 0
\* if it has not occurred
EventAt(e) ==
  LET hits == {i \in 1..Len(cap.events) : cap.events[i] = e}
  IN  IF hits = {} THEN 0 ELSE CHOOSE i \in hits : \A j \in hits : i <= j

\* C18: on every return path after the page was created, the page is closed
\* before capture returns, and a router that was started is stopped before the
\* page is closed; no page and no running router of a capture is left once it
\* has returned.
C18_PageAndRouterReleased ==
  /\ cap.pc \in {"idle", "returned"} => cap.page # "open" /\ cap.router # "running"
  /\ cap.page = "closed" => cap.router # "running"
  /\ (cap.pc = "returned" /\ EventAt("page") # 0 /\ cap.b.failAt # "page") =>
       /\ cap.page = "closed"
       /\ EventAt("page.Close") > EventAt("page")
       /\ EventAt("router") # 0 =>
            /\ cap.router = "stopped"
            /\ EventAt("router") < EventAt("router.MustStop")
            /\ EventAt("router.MustStop") < EventAt("page.Close")
  /\ (cap.pc = "returned" /\ cap.b.failAt = "page") =>
       cap.page = "none" /\ cap.router = "none"

\* a capture has returned after navigation failed: the router was stopped,
\* then the page was closed
C18_Witness ==
  /\ cap.pc = "returned"
  /\ cap.b.failAt = "navigate"
  /\ cap.events = <<"page", "viewport", "router", "navigate", "router.MustStop",
                    "page.Close">>
  /\ cap.page = "closed"
  /\ cap.router = "stopped"

\* ---------------------------------------- claims on capture and the cache

\* the 200 image response for the request's captured bytes, its ETag and the
\* timing of a complete capture
ImageResponse(rq) ==
  [status |-> 200, message |-> "", body |-> rq.screenshot,
   contentType |-> "image/webp", etag |-> rq.etag, xcache |-> "",
   timing |-> [Setup |-> TRUE, Navigation |-> TRUE, Load |-> TRUE,
               Screenshot |-> TRUE, Total |-> TRUE]]

\* C19: when capture succeeded and Save returned an error, the request ends
\* with the 200 image response carrying the captured bytes, the ETag and the
\* timing headers, the same response as after a successful Save.
C19_SaveFailureNotFatal ==
  \A r \in Reqs :
    LET rq == req[r]
    IN  "save" \in rq.did =>
          /\ rq.pc = "done"
          /\ rq.screenshot \in Images
          /\ rq.etag # NoETag
          /\ rq.resp = ImageResponse(rq)

\* a request has answered 200 with the image after its Save failed, and the
\* table holds no row for its key
C19_Witness ==
  \E r \in Reqs :
    /\ "save failed" \in req[r].did
    /\ req[r].resp.status = 200
    /\ req[r].resp.body \in Images
    /\ MatchingRows(rows, req[r].targetURL, req[r].width, req[r].height) = {}

\* request r's capture fails in this step, or r returns in it after a failed
\* capture
CaptureFails(r) ==
  /\ req[r].pc = "capture"
  /\ req'[r].pc = "done"
  /\ req'[r].resp.status \in {500, 504}

ReturnsFailed(r) ==
  /\ req[r].pc = "done"
  /\ req[r].resp.status \in {500, 504}
  /\ req'[r].pc = "gone"

\* C20: a request whose capture fails leaves the cache unchanged: the step in
\* which capture runs writes nothing, Save is called only with the bytes of a
\* capture that returned without error, a failed request never calls Save, and
\* Get returns for every key what it returned before the failure.
C20_FailedCaptureLeavesCache ==
  /\ [](\A r \in Reqs :
         /\ "save" \in req[r].did =>
              "capture" \in req[r].did /\ req[r].screenshot \in Images
         /\ req[r].resp.status \in {500, 504} =>
              /\ "capture" \in req[r].did
              /\ "save" \notin req[r].did
              /\ req[r].pc = "done")
  /\ [](\A row \in rows : row.data \in Images)
  /\ [][\A r \in Reqs :
         /\ (req[r].pc = "capture" /\ req'[r].pc # "capture") =>
              rows' = rows /\ nextId' = nextId
         /\ (CaptureFails(r) \/ ReturnsFailed(r)) =>
              /\ rows' = rows
              /\ Get(rows', req[r].targetURL, req[r].width, req[r].height, TRUE)
                   = Get(rows, req[r].targetURL, req[r].width, req[r].height, TRUE)
    ]_vars

\* a request's capture has failed while the table holds the row another
\* request saved for the same key
C20_Witness ==
  \E r \in Reqs :
    /\ req[r].resp.status \in {500, 504}
    /\ "capture" \in req[r].did
    /\ Get(rows, req[r].targetURL, req[r].width, req[r].height, TRUE).err = NoError

\* the status the claim gives a capture that failed at stage st
StageStatus(st) == IF st \in {"navigate", "load"} THEN 504 ELSE 500

\* C21: the status of a failed capture is determined by the failing stage:
\* 504 for a navigation or load-wait failure, 500 for a page-creation, viewport
\* or render failure, whatever the text of the browser's error.
C21_StatusByStage ==
  (cap.pc = "returned" /\ cap.ret.err # NoErr) =>
    handleCaptureError(cap.ret.err).status = StageStatus(cap.b.failAt)

\* a List call has returned a listing
Listed == listed # NoListing /\ listed.err = NoError

\* C22: List returns exactly one summary per stored row, without the bytes,
\* ordered by strictly descending id.
C22_ListNewestFirst ==
  Listed =>
    /\ Len(listed.json) = Cardinality(listed.table)
    /\ \A r \in listed.table : \E i \in 1..Len(listed.json) : listed.json[i] = Summary(r)
    /\ \A i \in 1..Len(listed.json) : "data" \notin DOMAIN listed.json[i]
    /\ \A i, j \in 1..Len(listed.json) : i < j => listed.json[i].id > listed.json[j].id

\* C23: a full-page request never reads the cache and never writes it: it
\* never calls Get or Save, whenever it has answered it has run the capture
\* pipeline unless it was answered 304 or 503 cancelled (a bot is turned away
\* before the full flag is read), and no step it takes changes the table.
C23_FullPageBypassesCache ==
  /\ [](\A r \in Reqs :
         req[r].fullPage =>
           /\ req[r].did \cap {"get", "get failed", "save", "save failed"} = {}
           /\ req[r].resp.xcache # "HIT"
           /\ req[r].pc \notin {"lookup", "save"}
           /\ (req[r].pc = "done" /\ req[r].resp # NotModified
                 /\ req[r].resp # ErrorPage(503, "Request cancelled"))
                => "capture" \in req[r].did)
  /\ [][\A r \in Reqs :
         (req'[r] # req[r] /\ (req[r].fullPage \/ req'[r].fullPage)) =>
           rows' = rows /\ nextId' = nextId /\ saved' = saved
    ]_vars

\* a full-page request has been answered with a fresh capture while the table
\* holds a row for its key
C23_Witness ==
  \E r \in Reqs :
    /\ req[r].fullPage
    /\ req[r].pc = "done"
    /\ req[r].resp.status = 200
    /\ "capture" \in req[r].did
    /\ MatchingRows(rows, req[r].targetURL, req[r].width, req[r].height) # {}

\* the latest protected request came with the configured password
CorrectPassword == admin.auth.ok /\ admin.auth.password = password

C25_CancelledNeverAcquires ==
  [][\A r \in Reqs :
       (req[r].pc = "select" /\ req[r].cancelled /\ req'[r] # req[r]) =>
         /\ req'[r].pc = "done"
         /\ req'[r].resp = ErrorPage(503, "Request cancelled")
         /\ "acquire" \notin req'[r].did
         /\ semaphore' = semaphore
    ]_vars

\* C26: every permit that is acquired is eventually released, even when the
\* browser never answers, and a request waiting for a permit eventually
\* acquires one or is cancelled.
C26_PermitsEventuallyReleased ==
  \A r \in Reqs :
    /\ req[r].deferred ~> req[r].pc = "gone"
    /\ req[r].pc = "blocked" ~> req[r].pc # "blocked"

\* a request whose cancellation signal fired while its capture was running
CancelledWithPermit(r) == "cancel in capture" \in req[r].did

\* C27: once a request holds a permit and its capture runs, its cancellation
\* does not abort the capture: capture runs to its own result, a successful capture of a request
\* that is not full-page is saved, the answer is the one of that result and
\* never the 503 cancelled outcome, and the permit is released on return.
C27_CancelDoesNotAbortCapture ==
  /\ [](\A r \in Reqs :
         CancelledWithPermit(r) =>
           /\ req[r].resp # ErrorPage(503, "Request cancelled")
           /\ req[r].pc = "done" =>
                /\ "capture" \in req[r].did
                /\ \/ req[r].resp.status \in {500, 504}
                   \/ /\ req[r].resp = writeResponse(req[r].screenshot, req[r].etag,
                                                       req[r].timing)
                      /\ req[r].screenshot \in Images
                      /\ ~req[r].fullPage =>
                           /\ "save" \in req[r].did
                           /\ "save failed" \notin req[r].did =>
                                Key(req[r].targetURL, req[r].width, req[r].height)
                                  \in saved)
  /\ [][\A r \in Reqs :
         /\ (CancelledWithPermit(r) /\ req[r].pc = "capturing" /\ req'[r].pc # "capturing")
              => /\ req'[r].pc \in {"done", "save"}
                 /\ req'[r].pc = "save" <=>
                      (req[r].b.failAt = "none" /\ ~req[r].fullPage)
                 /\ (req[r].b.failAt = "none") <=> (req'[r].screenshot \in Images)
         /\ (CancelledWithPermit(r) /\ req[r].pc = "done" /\ req'[r].pc = "gone")
              => \/ semaphore' = semaphore - 1
                 \/ /\ sendq # <<>>
                    /\ req'[Head(sendq)].pc = "capture"
                    /\ sendq' = Tail(sendq)
    ]_vars

\* a request cancelled during its capture has answered with the image, which
\* Get now returns for its key
C27_Witness ==
  \E r \in Reqs :
    /\ CancelledWithPermit(r)
    /\ req[r].pc = "done"
    /\ ~req[r].fullPage
    /\ req[r].resp.status = 200
    /\ Get(rows, req[r].targetURL, req[r].width, req[r].height, TRUE).data
         = req[r].screenshot

\* the stages of a capture that were entered
Entered(st) == st \in Range(cap.events)

\* C28: the Timing capture returns has Total set on every return path, the
\* failures at page creation, viewport, navigation and load included, and the
\* elapsed time of each stage that ran is recorded in its field.
C28_TimingOnEveryReturn ==
  cap.pc = "returned" =>
    /\ cap.ret.timing.Total
    /\ Entered("page") => cap.ret.timing.Setup
    /\ Entered("navigate") => cap.ret.timing.Navigation
    /\ Entered("load") => cap.ret.timing.Load
    /\ Entered("screenshot") => cap.ret.timing.Screenshot

\* the rows stored for the key of request r
StoredFor(r) == MatchingRows(rows, req[r].targetURL, req[r].width, req[r].height)

\* C29: a cache hit never touches the permit pool: a request that is not
\* full-page and whose key is stored is answered, by its Get, with the stored
\* bytes, the stored content type and X-Cache: HIT, without acquiring or
\* waiting for a permit, however many permits are held; and X-Cache: HIT is on
\* a response exactly when it was served from the repository.
C29_CacheHitSkipsPermits ==
  /\ [](\A r \in Reqs :
         /\ req[r].resp.xcache = "HIT" <=>
              /\ req[r].pc = "done"
              /\ req[r].resp.status = 200
              /\ req[r].did = {"get"}
         /\ req[r].resp.xcache = "HIT" => ~req[r].fullPage /\ ~req[r].deferred)
  /\ [][\A r \in Reqs :
         (req[r].pc = "lookup" /\ req'[r].pc # "lookup") =>
           IF StoredFor(r) # {} /\ "get failed" \notin req'[r].did
           THEN /\ \E row \in StoredFor(r) :
                     req'[r].resp = [status |-> 200, message |-> "", body |-> row.data,
                                     contentType |-> row.content_type,
                                     etag |-> req[r].etag, xcache |-> "HIT",
                                     timing |-> NoTiming]
                /\ req'[r].pc = "done"
                /\ semaphore' = semaphore
                /\ sendq' = sendq
           ELSE req'[r].pc = "select" /\ req'[r].resp = NoResp
    ]_vars

\* a request has been served from the cache while all permits are held by
\* other requests
C29_Witness ==
  \E r \in Reqs :
    /\ req[r].resp.xcache = "HIT"
    /\ req[r].resp.body \in Images
    /\ semaphore = MaxConcurrent
    /\ Cardinality({q \in Reqs \ {r} : req[q].deferred}) = MaxConcurrent

\* request r missed the cache and went through capture and Save on its own
MissedAndSaved(r) ==
  /\ ~req[r].fullPage
  /\ {"get", "acquire", "capture", "save"} \subseteq req[r].did
  /\ req[r].did \cap {"get failed", "save failed"} = {}

\* C30: concurrent misses on one key are not coalesced: every request that
\* missed acquires a permit and runs its own capture, and each successful Save
\* leaves exactly one row for the key, holding the bytes of that Save, so that
\* after two of them the row is the one of the Save executed last.
C30_MissesNotCoalesced ==
  /\ [](\A r \in Reqs :
         (req[r].resp.status = 200 /\ req[r].resp.xcache # "HIT"
            /\ req[r].resp # IndexPage) =>
           /\ {"acquire", "capture"} \subseteq req[r].did
           /\ req[r].resp.body = req[r].screenshot)
  /\ [](\A r \in Reqs : Cardinality(StoredFor(r)) <= 1)
  /\ [][\A r \in Reqs :
         (req[r].pc = "save" /\ req'[r].pc = "done"
            /\ "save failed" \notin req'[r].did) =>
           \E row \in rows' :
             /\ MatchingRows(rows', req[r].targetURL, req[r].width, req[r].height) = {row}
             /\ row.data = req[r].screenshot
             /\ row.id = nextId
             /\ \A other \in rows' : other.id <= row.id
    ]_vars

\* two requests for one key both missed, both captured, and both saved, with
\* different bytes; one row is stored for the key
C30_Witness ==
  \E r1, r2 \in Reqs :
    /\ r1 # r2
    /\ MissedAndSaved(r1) /\ MissedAndSaved(r2)
    /\ Key(req[r1].targetURL, req[r1].width, req[r1].height)
         = Key(req[r2].targetURL, req[r2].width, req[r2].height)
    /\ req[r1].screenshot # req[r2].screenshot
    /\ req[r1].resp.status = 200 /\ req[r2].resp.status = 200
    /\ \E row \in rows : StoredFor(r1) = {row} /\ row.data = req[r2].screenshot

\* the extension rule fired: shouldBlock logs "blocked media" for a request
\* whose resource type is neither Media nor WebSocket
ByExtensionRule == hijack.decision.log = "blocked media" /\ hijack.type \notin {"Media", "WebSocket"}

\* C31 as claimed: with BlockMedia set, a request whose URL path ends in a
\* blocked extension is blocked whether or not a query string or fragment
\* follows the path, and a request whose path has no blocked extension is not
\* blocked by the extension rule.
C31_ExtensionOfPath ==
  (Intercepted /\ config.BlockMedia) =>
    /\ FileExtension(hijack.url) \in blockedExtensions => hijack.decision.block
    /\ FileExtension(hijack.url) \notin blockedExtensions => ~ByExtensionRule

\* the favicon and manifest substrings the path rule is said to know
KnownPathSubstrings ==
  Range(blockedPaths) \cup { <<"f","a","v","i","c","o","n",".","i","c","o">> }

InKnownPath(url) == \E sub \in KnownPathSubstrings : Contains(PathOf(url), sub)

\* C32 as claimed: a request whose URL path contains favicon.ico,
\* apple-touch-icon, android-chrome or manifest.json is blocked for every
\* resource type and every setting of BlockFonts and BlockMedia, and a request
\* whose path contains none of them is not blocked by the path rule.
C32_PathSubstrings ==
  Intercepted =>
    /\ InKnownPath(hijack.url) => hijack.decision.block
    /\ ~InKnownPath(hijack.url) => hijack.decision.log # "blocked favicon/manifest"

\* C33 as claimed: shouldBlock returns false for every request of resource type
\* Document, whatever the extension or path of its URL.
C33_DocumentsNeverBlocked ==
  (Intercepted /\ hijack.type = "Document") => ~hijack.decision.block

\* C34: every intercepted request receives exactly one disposition:
\* Response.Fail(BlockedByClient) when shouldBlock is true and ContinueRequest
\* when it is false.
C34_OneDisposition ==
  Intercepted =>
    /\ Len(hijack.dispositions) = 1
    /\ hijack.dispositions[1] =
         IF shouldBlock(config, blocklist, hijack.url, hijack.type).block
         THEN "Response.Fail(BlockedByClient)" ELSE "ContinueRequest"

\* a request the policy blocks has been failed
C34_Witness ==
  /\ Intercepted
  /\ hijack.decision.block
  /\ hijack.dispositions = <<"Response.Fail(BlockedByClient)">>

\* C35 as claimed: within one hour, generateETag feeds distinct byte strings to
\* the hash for distinct (url, width, height) triples.
C35_DistinctHashInputs ==
  \A i \in 1..Len(tokens) : \A j \in 1..Len(tokens) :
    LET a == tokens[i]
        b == tokens[j]
    IN  (HourOf(a.at) = HourOf(b.at) /\ ~SameTriple(a, b)) => a.hashed # b.hashed

\* the client of request r received, in the current hour, an image in answer to
\* a request for r's url, width, height and full-page flag, with the ETag r sends
AnsweredBefore(r) ==
  \E e \in issued :
    /\ e.url = req'[r].targetURL
    /\ e.width = req'[r].width
    /\ e.height = req'[r].height
    /\ e.full = req'[r].fullPage
    /\ e.etag = req'[r].ifNoneMatch
    /\ HourOf(e.at) = HourOf(now)

\* C36 as claimed: when clients send only ETags they received from this
\* server, a request is answered 304 only if its (url, width, height,
\* full-page flag) combination was answered earlier in the same hour with a 200
\* image response carrying that ETag.
C36_NotModifiedOnlyAfterImage ==
  [][\A r \in Reqs :
       (req[r].pc = "idle" /\ req'[r].resp = NotModified) => AnsweredBefore(r)]_vars

\* C37: a request classified as a bot is answered 403 Forbidden and nothing
\* else happens: no 304, no ETag, no cache read or write, no permit acquired,
\* no capture, and the cache and the permit pool are as they were.
C37_BotsRefusedFirst ==
  [][\A r \in Reqs :
       (req'[r].pc \notin {"idle", "gone"} /\ isBot(input'.ua)) =>
         /\ req'[r].pc = "done"
         /\ req'[r].resp = ErrorPage(403, "Forbidden")
         /\ req'[r].etag = NoETag
         /\ req'[r].did = {}
         /\ ~req'[r].deferred
         /\ rows' = rows
         /\ nextId' = nextId
         /\ semaphore' = semaphore
         /\ sendq' = sendq]_vars

\* a bot is refused although it sends the current ETag of a cached image
C37_Witness ==
  \E r \in Reqs :
    /\ req[r].pc = "done"
    /\ isBot(input.ua)
    /\ input.url # <<>>
    /\ input.ifNoneMatch =
         ETagTable[<<NormalizeURL(input.url), parseDimensions(input.query), now>>]
    /\ MatchingRows(rows, NormalizeURL(input.url), parseDimensions(input.query).Width,
                    parseDimensions(input.query).Height) # {}
    /\ req[r].resp.status = 403

\* the url parameter with https:// in front exactly when it starts with
\* neither http:// nor https://
WithScheme(url) ==
  IF HasPrefix(url, HttpPrefix) \/ HasPrefix(url, HttpsPrefix) THEN url
  ELSE HttpsPrefix \o url

\* the other spellings of the url parameter of the request in progress: with
\* and without the https:// it would be given
Spellings == {u \in RawURLs \ {<<>>} : WithScheme(u) = WithScheme(input.url)}

\* C38: the target url is the url parameter with https:// prepended exactly
\* when it starts with neither http:// nor https://; normalising it again
\* changes nothing; the ETag, the cache lookup, the row saved and the
\* navigation use the normalised url; and a request that spells the same
\* target differently gets the same ETag and the same cache row.
C38_NormalizedURL ==
  /\ \A row \in rows : NormalizeURL(row.url) = row.url
  /\ \A r \in Current :
       (~isBot(input.ua) /\ input.url # <<>>) =>
         LET rq  == req[r]
             dim == Dimension(rq.width, rq.height)
         IN  /\ rq.targetURL = WithScheme(input.url)
             /\ NormalizeURL(rq.targetURL) = rq.targetURL
             /\ \E t \in 0..now : rq.etag = ETagTable[<<WithScheme(input.url), dim, t>>]
             /\ rq.navigated = IF "capture" \in rq.did THEN WithScheme(input.url)
                               ELSE <<>>
             /\ rq.resp.xcache = "HIT"
                  => \E row \in rows : /\ row.url = WithScheme(input.url)
                                       /\ row.data = rq.resp.body
             /\ "save" \in rq.did /\ "save failed" \notin rq.did
                  => \E row \in rows : /\ row.url = WithScheme(input.url)
                                       /\ row.data = rq.screenshot
             /\ \A u \in Spellings : \A t \in 0..MaxNow :
                  LET other == EntryTable[t][[input EXCEPT !.url = u]]
                      this  == EntryTable[t][input]
                  IN  other = this

\* a request for a.co is served the row saved for https://a.co
C38_Witness ==
  \E r \in Current :
    /\ input.url = <<"a",".","c","o">>
    /\ req[r].resp.xcache = "HIT"
    /\ \E row \in rows : row.url = HttpsPrefix \o <<"a",".","c","o">>
    /\ Cardinality(Spellings) = 2

\* C39: a call of shouldBlock or of IsBlocked leaves the blocked-domain set,
\* the configuration, the cache table and the permit pool as they were, and
\* the blocked-domain set is in every state the one the server was
\* constructed with.
C39_PolicyReadsOnly ==
  [][/\ blocklist' = blocklist
     /\ blocklist' = ServerBlocklist(embedded')
     /\ config' = config
     /\ rows' = rows
     /\ nextId' = nextId
     /\ semaphore' = semaphore
     /\ sendq' = sendq]_vars

\* the blocklist has answered both callers: GET /blocked found a subdomain
\* blocked, and shouldBlock blocked a request by its host
C39_Witness ==
  /\ Asked
  /\ checked.body = "blocked"
  /\ checked.domain \notin blocklist
  /\ Intercepted
  /\ hijack.decision.log = "blocked by blocklist"
  /\ hijack.decision.tests # <<>>

====
